---------------------------- MODULE Spec2Model ----------------------------
(***************************************************************************)
(* Model of the image-conversion program (RGB -> greyscale with optional   *)
(* brightness and contrast adjustment):                                    *)
(*   modules/brightness_contrast_sse.c  convert_coeffs_to_max256,          *)
(*                                      sum_mm_epi16,                      *)
(*                                      load_and_convert_to_grey16,        *)
(*                                      brightness_contrast_V0             *)
(*   modules/brightness_contrast.c      brightness_contrast_V1, _V2        *)
(*   modules/util.c                     sqrtHeron                          *)
(*                                                                         *)
(* C float and double arithmetic is modelled bit-exactly: a value is an    *)
(* exact dyadic number sg * m * 2^e whose mantissa m is an arbitrary       *)
(* precision natural (TLC integers are 32 bit), and every float/double     *)
(* operation is the exact operation followed by round-to-nearest-even to   *)
(* 24 or 53 significant bits.                                              *)
(***************************************************************************)
EXTENDS Integers, Sequences, FiniteSets

(***************************************************************************)
(* Arbitrary precision naturals: little-endian sequences of 15-bit limbs,  *)
(* no leading (high) zero limb, zero is <<>>.                              *)
(***************************************************************************)
LimbBits == 15
Limb == 32768

RECURSIVE BTrim(_)
BTrim(x) ==
  IF x = <<>> THEN <<>>
  ELSE IF x[Len(x)] = 0 THEN BTrim(SubSeq(x, 1, Len(x) - 1)) ELSE x

RECURSIVE BFromInt(_)
BFromInt(n) == IF n = 0 THEN <<>> ELSE <<n % Limb>> \o BFromInt(n \div Limb)

RECURSIVE BToInt(_)
BToInt(x) == IF x = <<>> THEN 0 ELSE Head(x) + Limb * BToInt(Tail(x))

RECURSIVE BAddC(_, _, _)
BAddC(x, y, c) ==
  IF x = <<>> /\ y = <<>> THEN (IF c = 0 THEN <<>> ELSE <<c>>)
  ELSE LET xd == IF x = <<>> THEN 0 ELSE Head(x)
           yd == IF y = <<>> THEN 0 ELSE Head(y)
           s  == xd + yd + c
       IN <<s % Limb>> \o BAddC(IF x = <<>> THEN <<>> ELSE Tail(x),
                                IF y = <<>> THEN <<>> ELSE Tail(y),
                                s \div Limb)

BAdd(x, y) == BAddC(x, y, 0)

\* x - y for x >= y
RECURSIVE BSubB(_, _, _)
BSubB(x, y, b) ==
  IF x = <<>> THEN <<>>
  ELSE LET yd == IF y = <<>> THEN 0 ELSE Head(y)
           d  == Head(x) - yd - b
       IN <<IF d < 0 THEN d + Limb ELSE d>>
          \o BSubB(Tail(x), IF y = <<>> THEN <<>> ELSE Tail(y),
                   IF d < 0 THEN 1 ELSE 0)

BSub(x, y) == BTrim(BSubB(x, y, 0))

\* -1, 0, 1 as x <, =, > y
RECURSIVE BCmpFrom(_, _, _)
BCmpFrom(x, y, i) ==
  IF i = 0 THEN 0
  ELSE IF x[i] < y[i] THEN -1
  ELSE IF x[i] > y[i] THEN 1
  ELSE BCmpFrom(x, y, i - 1)

BCmp(x, y) ==
  IF Len(x) < Len(y) THEN -1
  ELSE IF Len(x) > Len(y) THEN 1
  ELSE BCmpFrom(x, y, Len(x))

RECURSIVE BMulD(_, _, _)
BMulD(x, d, c) ==
  IF x = <<>> THEN (IF c = 0 THEN <<>> ELSE <<c>>)
  ELSE LET p == Head(x) * d + c
       IN <<p % Limb>> \o BMulD(Tail(x), d, p \div Limb)

RECURSIVE BMul(_, _)
BMul(x, y) ==
  IF x = <<>> \/ y = <<>> THEN <<>>
  ELSE BTrim(BAdd(BMulD(x, Head(y), 0), <<0>> \o BMul(x, Tail(y))))

BZeros(k) == [i \in 1..k |-> 0]

\* x * 2^k
BShl(x, k) ==
  IF x = <<>> THEN <<>>
  ELSE BZeros(k \div LimbBits) \o BMulD(x, 2^(k % LimbBits), 0)

\* floor(x / 2^k)
BShr(x, k) ==
  LET q == k \div LimbBits
      r == k % LimbBits
      y == IF q >= Len(x) THEN <<>> ELSE SubSeq(x, q + 1, Len(x))
  IN BTrim([i \in 1..Len(y) |->
              (y[i] \div 2^r)
              + (IF i < Len(y) THEN (y[i+1] % 2^r) * 2^(LimbBits - r) ELSE 0)])

RECURSIVE BitLen(_)
BitLen(n) == IF n = 0 THEN 0 ELSE 1 + BitLen(n \div 2)

BBitLen(x) ==
  IF x = <<>> THEN 0 ELSE LimbBits * (Len(x) - 1) + BitLen(x[Len(x)])

\* bit k of x (bit 0 is the least significant)
BTestBit(x, k) ==
  LET i == k \div LimbBits + 1
  IN IF i > Len(x) THEN 0 ELSE (x[i] \div 2^(k % LimbBits)) % 2

\* x mod 2^k = 0
BLowZero(x, k) ==
  LET q == k \div LimbBits
  IN /\ \A i \in 1..q : i > Len(x) \/ x[i] = 0
     /\ (q + 1 > Len(x) \/ x[q + 1] % 2^(k % LimbBits) = 0)

(***************************************************************************)
(* Exact dyadic numbers [sg, m, e] = sg * m * 2^e; zero is XZero.          *)
(***************************************************************************)
XZero == [sg |-> 1, m |-> <<>>, e |-> 0]

XMk(sg, m, e) == IF m = <<>> THEN XZero ELSE [sg |-> sg, m |-> m, e |-> e]

XInt(n) == XMk(IF n < 0 THEN -1 ELSE 1, BFromInt(IF n < 0 THEN -n ELSE n), 0)

XNeg(x) == XMk(-x.sg, x.m, x.e)

XIsZero(x) == x.m = <<>>

XMul(x, y) == XMk(x.sg * y.sg, BMul(x.m, y.m), x.e + y.e)

\* the element of a one-element set: Only({e(v) : v \in {d}}) is e(d), with
\* d computed once
Only(S) == CHOOSE r \in S : TRUE

\* x + y for nonzero x, y whose mantissas at the exponent e0 are mx, my
XAddAt(x, y, mx, my, e0) ==
  IF x.sg = y.sg THEN XMk(x.sg, BAdd(mx, my), e0)
  ELSE Only({IF c = 0 THEN XZero
             ELSE IF c > 0 THEN XMk(x.sg, BSub(mx, my), e0)
             ELSE XMk(y.sg, BSub(my, mx), e0) : c \in {BCmp(mx, my)}})

XAdd(x, y) ==
  IF XIsZero(x) THEN y
  ELSE IF XIsZero(y) THEN x
  ELSE Only({XAddAt(x, y, BShl(x.m, x.e - e0), BShl(y.m, y.e - e0), e0) :
             e0 \in {IF x.e < y.e THEN x.e ELSE y.e}})

XSub(x, y) == XAdd(x, XNeg(y))

\* sign of x: -1, 0, 1
XSign(x) == IF XIsZero(x) THEN 0 ELSE x.sg

\* -1, 0, 1 as x <, =, > y
XCmp(x, y) == XSign(XSub(x, y))

XLt(x, y) == XCmp(x, y) < 0
XGt(x, y) == XCmp(x, y) > 0
XEq(x, y) == XCmp(x, y) = 0

\* x with its lowest t bits cut off, q = floor(x.m / 2^t), rounded to
\* nearest, ties to even
XRoundCut(p, x, t, q) ==
  Only({IF BBitLen(q1) > p
        THEN XMk(x.sg, BShr(q1, 1), x.e + t + 1)
        ELSE XMk(x.sg, q1, x.e + t) :
        q1 \in {IF /\ BTestBit(x.m, t - 1) = 1
                   /\ (~BLowZero(x.m, t - 1) \/ BTestBit(q, 0) = 1)
                THEN BAdd(q, <<1>>) ELSE q}})

\* round to nearest, ties to even, to p significant bits; the result is
\* normalised so that its mantissa has exactly p bits
XRound(p, x) ==
  IF XIsZero(x) THEN XZero
  ELSE Only({IF l <= p THEN XMk(x.sg, BShl(x.m, p - l), x.e - (p - l))
             ELSE XRoundCut(p, x, l - p, BShr(x.m, l - p)) :
             l \in {BBitLen(x.m)}})

\* one step of restoring division by d on st = <<quotient, remainder>>
BDivStep(d, st) ==
  Only({IF BCmp(r2, d) >= 0
        THEN <<BAdd(BShl(st[1], 1), <<1>>), BSub(r2, d)>>
        ELSE <<BShl(st[1], 1), r2>> : r2 \in {BShl(st[2], 1)}})

\* k steps of restoring division (the recursion halves k to stay shallow)
RECURSIVE BDivBits(_, _, _)
BDivBits(d, st, k) ==
  IF k = 0 THEN st
  ELSE IF k = 1 THEN BDivStep(d, st)
  ELSE LET h == BDivBits(d, st, k \div 2)
       IN IF Len(h) = 2 THEN BDivBits(d, h, k - k \div 2) ELSE h

\* x / y to p significant bits, for the mantissas A of x and D of y shifted
\* left by al and be bits to the same length
XDivLong(p, x, y, al, be, A, D) ==
  Only({XRound(p, XMk(x.sg * y.sg,
                      \* the sticky bit goes below the quotient
                      BAdd(BShl(qr[1], 1),
                           IF qr[2] = <<>> THEN <<>> ELSE <<1>>),
                      (x.e - al) - (y.e - be) - (p + 1) - 1)) :
        qr \in {IF BCmp(A, D) >= 0
                THEN BDivBits(D, <<<<1>>, BSub(A, D)>>, p + 1)
                ELSE BDivBits(D, <<<<>>, A>>, p + 1)}})

\* x / y rounded to p significant bits (y # 0)
XDiv(p, x, y) ==
  IF XIsZero(x) THEN XZero
  ELSE Only({IF BLowZero(y.m, l[2] - 1)
             THEN \* y is a power of two: the quotient is x with another
                  \* exponent
                  XRound(p, XMk(x.sg * y.sg, x.m, x.e - y.e - (l[2] - 1)))
             ELSE Only({XDivLong(p, x, y, s[1], s[2],
                                 BShl(x.m, s[1]), BShl(y.m, s[2])) :
                        s \in {<<IF l[2] > l[1] THEN l[2] - l[1] ELSE 0,
                                 IF l[1] > l[2] THEN l[1] - l[2] ELSE 0>>}}) :
             l \in {<<BBitLen(x.m), BBitLen(y.m)>>}})

\* integer part of x, rounded toward zero (|x| < 2^30)
XTrunc(x) ==
  IF XIsZero(x) THEN 0
  ELSE x.sg * BToInt(IF x.e >= 0 THEN BShl(x.m, x.e) ELSE BShr(x.m, -x.e))

\* |x| < 2^k
XBelowPow2(x, k) == XIsZero(x) \/ BBitLen(x.m) + x.e <= k

(***************************************************************************)
(* C float (24 significant bits) and double (53 significant bits).         *)
(***************************************************************************)
FltBits == 24
DblBits == 53

F32(x) == XRound(FltBits, x)
F64(x) == XRound(DblBits, x)
F32Int(n) == F32(XInt(n))
F64Int(n) == F64(XInt(n))
F32Add(x, y) == F32(XAdd(x, y))
F32Sub(x, y) == F32(XSub(x, y))
F32Mul(x, y) == F32(XMul(x, y))
F32Div(x, y) == XDiv(FltBits, x, y)
F64Add(x, y) == F64(XAdd(x, y))
F64Sub(x, y) == F64(XSub(x, y))
F64Mul(x, y) == F64(XMul(x, y))
F64Div(x, y) == XDiv(DblBits, x, y)

(***************************************************************************)
(* Bounds of the model.                                                    *)
(***************************************************************************)
\* small weights range over 0..MaxW
MaxW == 3
\* cap on the iterations of the nudging loop that the model follows
MaxNudge == 131072

\* weight triples whose sum reaches 256
BigWeights == {<<128, 128, 0>>, <<100, 100, 100>>}

SmallWeights == {w \in (0..MaxW) \X (0..MaxW) \X (0..MaxW) : w[1] + w[2] + w[3] > 0}

(***************************************************************************)
(* convert_coeffs_to_max256 (brightness_contrast_sse.c).                   *)
(* The weights a, b, c are floats with integer values.                     *)
(***************************************************************************)
U16 == 65536

\* float sum = a + b + c;
CoeffSum(a, b, c) == F32Add(F32Add(F32Int(a), F32Int(b)), F32Int(c))

\* coeffs[i] = 256 * (w / sum);   (float to uint16_t: truncation)
InitCoeff(w, sum) == XTrunc(F32Mul(F32Int(256), F32Div(F32Int(w), sum))) % U16

\* 256.0 * w / sum   (double; the same value in every iteration)
IdealCoeff(w, sum) == F64Div(F64Mul(F64Int(256), F32Int(w)), sum)

\* float w_diff = 256.0 * w / sum - coeffs[i];
CoeffDiff(ideal, co) == F32(F64Sub(ideal, F64Int(co)))

CoeffTotal(co) == co[1] + co[2] + co[3]

\* NudgeChoice where green wins a tie with blue
NudgeChoiceGreenOverBlue(up, df) ==
  IF up
  THEN (IF XGt(df[1], df[2])
        THEN (IF XGt(df[1], df[3]) THEN 1 ELSE 3)
        ELSE (IF ~XLt(df[2], df[3]) THEN 2 ELSE 3))
  ELSE (IF XLt(df[1], df[2])
        THEN (IF XLt(df[1], df[3]) THEN 1 ELSE 3)
        ELSE (IF ~XGt(df[2], df[3]) THEN 2 ELSE 3))

\* NudgeChoice with >= and <= for > and <: a tie goes to the first weight
NudgeChoiceTieFirst(up, df) ==
  IF up
  THEN (IF ~XLt(df[1], df[2])
        THEN (IF ~XLt(df[1], df[3]) THEN 1 ELSE 3)
        ELSE (IF ~XLt(df[2], df[3]) THEN 2 ELSE 3))
  ELSE (IF ~XGt(df[1], df[2])
        THEN (IF ~XGt(df[1], df[3]) THEN 1 ELSE 3)
        ELSE (IF ~XGt(df[2], df[3]) THEN 2 ELSE 3))

\* which of coeffs[0..2] (1, 2, 3) the else-branch of the loop body changes:
\* up is sum < 256, df the three differences a_diff, b_diff, c_diff
NudgeChoice(up, df) ==
  IF up
  THEN (IF XGt(df[1], df[2])
        THEN (IF XGt(df[1], df[3]) THEN 1 ELSE 3)
        ELSE (IF XGt(df[2], df[3]) THEN 2 ELSE 3))
  ELSE (IF XLt(df[1], df[2])
        THEN (IF XLt(df[1], df[3]) THEN 1 ELSE 3)
        ELSE (IF XLt(df[2], df[3]) THEN 2 ELSE 3))

\* one pass through the else-branch of the loop body on the locals
\* st = [up, id, co, df, it]: id holds the three ideal values, co is
\* coeffs[0..2] (uint16_t), df the differences that the next pass computes
\* (only the one of the changed weight differs from this pass), it counts
\* the passes
Nudge(st) ==
  Only({Only({[st EXCEPT !.co[i] = v, !.df[i] = CoeffDiff(st.id[i], v),
                         !.it = @ + 1] :
              v \in {IF st.up THEN (st.co[i] + 1) % U16
                               ELSE (st.co[i] + U16 - 1) % U16}}) :
        i \in {NudgeChoice(st.up, st.df)}})

\* the while (1) loop, followed for at most n iterations; it returns as
\* soon as the total is 256 (the recursion halves n to stay shallow)
RECURSIVE NudgeLoop(_, _)
NudgeLoop(st, n) ==
  IF CoeffTotal(st.co) = 256 THEN st
  ELSE IF n = 1 THEN Nudge(st)
  ELSE LET h == NudgeLoop(st, n \div 2)
       IN IF CoeffTotal(h.co) = 256 THEN h ELSE NudgeLoop(h, n - n \div 2)

\* the locals on entry to the loop, from sum < 256, the ideal values and the
\* initial coeffs[0..2]
NudgeStart(up, id, co) ==
  [up |-> up, id |-> id, co |-> co,
   df |-> <<CoeffDiff(id[1], co[1]), CoeffDiff(id[2], co[2]),
            CoeffDiff(id[3], co[3])>>,
   it |-> 0]

\* the whole call: co is coeffs[0..2] on return and it the number of loop
\* iterations made; the call has returned iff the total of co is 256
convert_coeffs_to_max256(a, b, c) ==
  Only({NudgeLoop(NudgeStart(XLt(sum, F32Int(256)),
                             <<IdealCoeff(a, sum), IdealCoeff(b, sum),
                               IdealCoeff(c, sum)>>,
                             <<InitCoeff(a, sum), InitCoeff(b, sum),
                               InitCoeff(c, sum)>>), MaxNudge) :
        sum \in {CoeffSum(a, b, c)}})

(***************************************************************************)
(* Non-finite floats.  NaN marks an unset contrast and the NAN that        *)
(* sqrtHeron returns; a float of magnitude 2^128 or more is infinite.      *)
(***************************************************************************)
NaN == [sg |-> 0, m |-> <<>>, e |-> 0]
Inf == [sg |-> 1, m |-> <<1>>, e |-> 128]
isnan(x) == x.sg = 0
isinf(x) == ~isnan(x) /\ ~XBelowPow2(x, 128)

\* x / y in float where y may be zero or NaN
F32DivC(x, y) ==
  IF isnan(x) \/ isnan(y) THEN NaN
  ELSE IF XIsZero(y) THEN (IF XIsZero(x) THEN NaN ELSE Inf)
  ELSE F32Div(x, y)

(***************************************************************************)
(* Folding a loop body over i = lo..hi in order; the range is halved so    *)
(* that the evaluation stays shallow.                                      *)
(***************************************************************************)
\* f itself; the comparison has f computed once, before it is applied
Evaluated(f) == IF f = f THEN f ELSE f

RECURSIVE FoldRange(_, _, _, _)
FoldRange(F(_, _), acc, lo, hi) ==
  IF lo > hi THEN acc
  ELSE IF lo = hi THEN F(acc, lo)
  ELSE LET mid == (lo + hi) \div 2
           h   == FoldRange(F, acc, lo, mid)
       IN IF h = h THEN FoldRange(F, h, mid + 1, hi) ELSE h

SumSeq(s) == FoldRange(LAMBDA acc, i : acc + s[i], 0, 1, Len(s))

(***************************************************************************)
(* sqrtHeron (util.c).                                                     *)
(***************************************************************************)
\* cap on the iterations of Heron's method that the model follows
MaxHeron == 40

HeronStep(n, x) == F32Div(F32Add(x, F32Div(n, x)), F32Int(2))

RECURSIVE HeronLoop(_, _, _)
HeronLoop(n, x, k) ==
  Only({IF k = 0 \/ XEq(x1, x) THEN [x |-> x1, it |-> MaxHeron - k + 1]
        ELSE HeronLoop(n, x1, k - 1) : x1 \in {HeronStep(n, x)}})

sqrtHeronRun(n) ==
  IF isnan(n) \/ isinf(n) \/ XLt(n, XZero) THEN [x |-> NaN, it |-> 0]
  ELSE IF XIsZero(n) THEN [x |-> XZero, it |-> 0]
  ELSE HeronLoop(n, F32Div(F32Add(n, F32Int(1)), F32Int(2)), MaxHeron)

sqrtHeron(n) == sqrtHeronRun(n).x

(***************************************************************************)
(* Parts shared by the scalar strategies (brightness_contrast.c) and the   *)
(* scalar parts of brightness_contrast_V0.                                 *)
(***************************************************************************)
\* the channels of pixel i (from 0) of a flat RGB buffer
Red(img, i)   == img[3 * i + 1]
Green(img, i) == img[3 * i + 2]
Blue(img, i)  == img[3 * i + 3]

\* if (res > 255) 255 else if (res < 0) 0 else (uint8_t) res : the value
\* that is stored, before it is narrowed to a byte
Clamp8(res) ==
  IF XGt(res, F32Int(255)) THEN 255
  ELSE IF XLt(res, XZero) THEN 0
  ELSE XTrunc(res)

\* narrowing to uint8_t
U8(n) == n % 256

\* mean /= wh on the double that holds the sum of the bytes
MeanOf(msum, wh) == F64Div(msum, F64Int(wh))

\* VarLoop that leaves out result[lo]
VarLoopFromSecond(var0, result, mean, lo, hi) ==
  FoldRange(LAMBDA acc, i :
              Only({F64Add(acc, F64Mul(d, d)) :
                    d \in {F64Sub(F64Int(result[i]), mean)}}),
            var0, lo + 1, hi)

\* var += (result[i] - mean) * (result[i] - mean) for i = lo..hi (from 1)
VarLoop(var0, result, mean, lo, hi) ==
  FoldRange(LAMBDA acc, i :
              Only({F64Add(acc, F64Mul(d, d)) :
                    d \in {F64Sub(F64Int(result[i]), mean)}}),
            var0, lo, hi)

\* Summand that also fails for a negative factor
SummandFailingBelowZero(kstd, mean) ==
  IF isnan(kstd) \/ isinf(kstd) \/ XLt(kstd, XZero)
  THEN [ok |-> FALSE, kstd |-> kstd, summand |-> XZero]
  ELSE Only({[ok |-> ~(isnan(summand) \/ isinf(summand)),
              kstd |-> kstd, summand |-> summand] :
             summand \in {F32(F64Mul(F32Sub(F32Int(1), kstd), mean))}})

\* the checks on kstd, then summand = (1 - kstd) * mean and the checks on it
Summand(kstd, mean) ==
  IF isnan(kstd) \/ isinf(kstd)
  THEN [ok |-> FALSE, kstd |-> kstd, summand |-> XZero]
  ELSE Only({[ok |-> ~(isnan(summand) \/ isinf(summand)),
              kstd |-> kstd, summand |-> summand] :
             summand \in {F32(F64Mul(F32Sub(F32Int(1), kstd), mean))}})

\* Factor without the test var != 0.0
FactorDividing(contrast, var, mean) ==
  Summand(F32DivC(contrast, sqrtHeron(F32(var))), mean)

\* kstd, summand and the success flag of the contrast factor computation
Factor(contrast, var, mean) ==
  Summand(IF XIsZero(var) THEN XZero
          ELSE F32DivC(contrast, sqrtHeron(F32(var))), mean)

\* res = kstd * i + summand in float
LookupRes(kstd, summand, i) == F32Add(F32Mul(kstd, F32Int(i)), summand)


(***************************************************************************)
(* brightness_contrast_V1 (brightness_contrast.c): fused float grey and    *)
(* brightness pass, then the contrast lookup table.                        *)
(* A weight is an integer w standing for the float (float) w.              *)
(***************************************************************************)
\* sum = a + b + c; a /= sum; b /= sum; c /= sum
V1Norm(a, b, c) ==
  Only({<<F32Div(F32Int(a), sum), F32Div(F32Int(b), sum),
          F32Div(F32Int(c), sum)>> : sum \in {CoeffSum(a, b, c)}})

\* res = a * img[i * 3] + b * img[i * 3 + 1] + c * img[i * 3 + 2]
WeightedSum(n, img, i) ==
  F32Add(F32Add(F32Mul(n[1], F32Int(Red(img, i))),
                F32Mul(n[2], F32Int(Green(img, i)))),
         F32Mul(n[3], F32Int(Blue(img, i))))

\* V1Fused without the clamp
V1FusedUnclamped(res, brightness) ==
  XTrunc(F32Add(res, F32Int(brightness)))

\* what the first loop stores for the float grey value res, before
\* narrowing: (uint8_t) res, or res += brightness and the clamp
V1Fused(res, brightness) ==
  IF brightness = 0 THEN XTrunc(res)
  ELSE Clamp8(F32Add(res, F32Int(brightness)))

\* V1Pixel without the clamp after the brightness is added
V1PixelUnclamped(n, img, i, brightness) ==
  XTrunc(F32Add(WeightedSum(n, img, i), F32Int(brightness)))

\* the value stored for pixel i by the first loop, before narrowing
V1Pixel(n, img, i, brightness) == V1Fused(WeightedSum(n, img, i), brightness)

V1GreyLoop(img, wh, a, b, c, brightness) ==
  Only({[i \in 1..wh |-> V1Pixel(n, img, i - 1, brightness)] :
        n \in {V1Norm(a, b, c)}})

\* the lookup table, before narrowing
V1Lookup(kstd, summand) ==
  [j \in 1..256 |-> Clamp8(LookupRes(kstd, summand, j - 1))]

(***************************************************************************)
(* brightness_contrast_V2 (brightness_contrast.c): one pass per stage.     *)
(***************************************************************************)
\* res = (a * r + b * g + c * b) / (a + b + c); (uint8_t) res
V2GreyPixel(a, b, c, img, i) ==
  XTrunc(F32Div(WeightedSum(<<F32Int(a), F32Int(b), F32Int(c)>>, img, i),
                CoeffSum(a, b, c)))

V2GreyLoop(img, wh, a, b, c) ==
  [i \in 1..wh |-> V2GreyPixel(a, b, c, img, i - 1)]

\* res = result[i] + brightness, clamped
V2BrightPixel(byte, brightness) == Clamp8(F32Int(byte + brightness))

\* V2BrightLoop without the clamp
V2BrightLoopUnclamped(result, brightness) ==
  [i \in 1..Len(result) |-> result[i] + brightness]

\* the brightness loop
V2BrightLoop(result, brightness) ==
  [i \in 1..Len(result) |-> V2BrightPixel(result[i], brightness)]

\* res = kstd * result[i] + (1 - kstd) * mean, clamped
V2ContrastPixel(kstd, mean, v) ==
  Clamp8(F32(F64Add(F32Mul(kstd, F32Int(v)),
                    F64Mul(F32Sub(F32Int(1), kstd), mean))))

V2ContrastLoop(result, kstd, mean) ==
  [i \in 1..Len(result) |-> V2ContrastPixel(kstd, mean, result[i])]


(***************************************************************************)
(* SSE registers.  An __m128i is a sequence of 16 bytes (byte 0 first);    *)
(* the epi16 operations see it as 8 little-endian 16-bit lanes.            *)
(***************************************************************************)
RECURSIVE BitOr(_, _)
BitOr(x, y) ==
  IF x = 0 THEN y
  ELSE IF y = 0 THEN x
  ELSE (IF x % 2 = 1 \/ y % 2 = 1 THEN 1 ELSE 0) + 2 * BitOr(x \div 2, y \div 2)

Lanes16(v) ==
  <<v[1] + 256 * v[2], v[3] + 256 * v[4], v[5] + 256 * v[6],
    v[7] + 256 * v[8], v[9] + 256 * v[10], v[11] + 256 * v[12],
    v[13] + 256 * v[14], v[15] + 256 * v[16]>>
Bytes16(l) ==
  <<l[1] % 256, l[1] \div 256, l[2] % 256, l[2] \div 256,
    l[3] % 256, l[3] \div 256, l[4] % 256, l[4] \div 256,
    l[5] % 256, l[5] \div 256, l[6] % 256, l[6] \div 256,
    l[7] % 256, l[7] \div 256, l[8] % 256, l[8] \div 256>>
\* a 16-bit lane read as a signed integer, and an integer wrapped to int16_t
Signed16(x) == IF x >= 32768 THEN x - U16 ELSE x
S16(n) == Signed16(n % U16)

mm_setzero_si128 == [k \in 1..16 |-> 0]
mm_set1_epi16(x) == Bytes16([j \in 1..8 |-> x % U16])
mm_loadu_si128(buf, off) == [k \in 1..16 |-> buf[off + k]]
mm_shuffle_epi8(v, mask) ==
  [k \in 1..16 |-> IF mask[k] < 0 THEN 0 ELSE v[(mask[k] % 16) + 1]]
mm_or_si128(u, v) == [k \in 1..16 |-> BitOr(u[k], v[k])]
\* a product that keeps 15 bits
mm_mullo_epi16Low15(u, v) ==
  LET lu == Lanes16(u)
      lv == Lanes16(v)
  IN Bytes16([j \in 1..8 |-> (lu[j] * lv[j]) % 32768])

mm_mullo_epi16(u, v) ==
  LET lu == Lanes16(u)
      lv == Lanes16(v)
  IN Bytes16([j \in 1..8 |-> (lu[j] * lv[j]) % U16])
mm_add_epi16(u, v) ==
  LET lu == Lanes16(u)
      lv == Lanes16(v)
  IN Bytes16([j \in 1..8 |-> (lu[j] + lv[j]) % U16])
mm_srli_epi16(u, n) ==
  LET lu == Lanes16(u) IN Bytes16([j \in 1..8 |-> lu[j] \div 2^n])
mm_min_epi16(u, v) ==
  LET lu == Lanes16(u)
      lv == Lanes16(v)
  IN Bytes16([j \in 1..8 |-> IF Signed16(lu[j]) < Signed16(lv[j])
                             THEN lu[j] ELSE lv[j]])
mm_max_epi16(u, v) ==
  LET lu == Lanes16(u)
      lv == Lanes16(v)
  IN Bytes16([j \in 1..8 |-> IF Signed16(lu[j]) > Signed16(lv[j])
                             THEN lu[j] ELSE lv[j]])
\* shift the whole register right by n bytes
mm_srli_si128(v, n) == [k \in 1..16 |-> IF k + n <= 16 THEN v[k + n] ELSE 0]
mm_extract_epi16(v, j) == Lanes16(v)[j + 1]

(***************************************************************************)
(* sum_mm_epi16 (brightness_contrast_sse.c).                               *)
(***************************************************************************)
sum_mm_epi16(vector) ==
  Only({Only({Only({mm_extract_epi16(sum3, 0) :
                    sum3 \in {mm_add_epi16(sum2, mm_srli_si128(sum2, 2))}}) :
              sum2 \in {mm_add_epi16(sum1, mm_srli_si128(sum1, 4))}}) :
        sum1 \in {mm_add_epi16(vector, mm_srli_si128(vector, 8))}})

(***************************************************************************)
(* The shuffle masks of brightness_contrast_V0.                            *)
(***************************************************************************)
mask_red1   == <<0, -1, 3, -1, 6, -1, 9, -1, 12, -1, 15, -1, -1, -1, -1, -1>>
mask_green1 == <<1, -1, 4, -1, 7, -1, 10, -1, 13, -1, -1, -1, -1, -1, -1, -1>>
mask_blue1  == <<2, -1, 5, -1, 8, -1, 11, -1, 14, -1, -1, -1, -1, -1, -1, -1>>
mask_red2   == <<-1, -1, -1, -1, -1, -1, -1, -1, -1, -1, -1, -1, 2, -1, 5, -1>>
mask_green2 == <<-1, -1, -1, -1, -1, -1, -1, -1, -1, -1, 0, -1, 3, -1, 6, -1>>
mask_blue2  == <<-1, -1, -1, -1, -1, -1, -1, -1, -1, -1, 1, -1, 4, -1, 7, -1>>
mask_red3   == <<8, -1, 11, -1, 14, -1, -1, -1, -1, -1, -1, -1, -1, -1, -1, -1>>
mask_green3 == <<9, -1, 12, -1, 15, -1, -1, -1, -1, -1, -1, -1, -1, -1, -1, -1>>
mask_blue3  == <<10, -1, 13, -1, -1, -1, -1, -1, -1, -1, -1, -1, -1, -1, -1, -1>>
mask_red4   == <<-1, -1, -1, -1, -1, -1, 1, -1, 4, -1, 7, -1, 10, -1, 13, -1>>
mask_green4 == <<-1, -1, -1, -1, -1, -1, 2, -1, 5, -1, 8, -1, 11, -1, 14, -1>>
mask_blue4  == <<-1, -1, -1, -1, 0, -1, 3, -1, 6, -1, 9, -1, 12, -1, 15, -1>>
mask_grey   == <<0, 2, 4, 6, 8, 10, 12, 14, -1, -1, -1, -1, -1, -1, -1, -1>>
mask_grey2  == <<-1, -1, -1, -1, -1, -1, -1, -1, 0, 2, 4, 6, 8, 10, 12, 14>>

(***************************************************************************)
(* load_and_convert_to_grey16 (brightness_contrast_sse.c): the grey values *)
(* of the 16 pixels from pixel i, as two registers of 8 lanes.             *)
(***************************************************************************)
\* one colour of 8 pixels, picked from two registers by two masks, times its
\* coefficient:  _mm_mullo_epi16(_mm_or_si128(shuffle, shuffle), coeff)
Channel(p, m1, q, m2, coeff) ==
  mm_mullo_epi16(mm_or_si128(mm_shuffle_epi8(p, m1), mm_shuffle_epi8(q, m2)),
                 mm_set1_epi16(coeff))

\* _mm_srli_epi16(red + green + blue, 8)
Grey16(red, green, blue) ==
  mm_srli_epi16(mm_add_epi16(mm_add_epi16(red, green), blue), 8)

\* p holds pixels1, pixels2, pixels3; the result is <<grey1, grey2>>
load_and_convert_to_grey16(img, i, coeffs) ==
  Only({<<Grey16(Channel(p[1], mask_red1, p[2], mask_red2, coeffs[1]),
                 Channel(p[1], mask_green1, p[2], mask_green2, coeffs[2]),
                 Channel(p[1], mask_blue1, p[2], mask_blue2, coeffs[3])),
          Grey16(Channel(p[2], mask_red3, p[3], mask_red4, coeffs[1]),
                 Channel(p[2], mask_green3, p[3], mask_green4, coeffs[2]),
                 Channel(p[2], mask_blue3, p[3], mask_blue4, coeffs[3]))>> :
        p \in {<<mm_loadu_si128(img, 3 * i), mm_loadu_si128(img, 3 * i + 16),
                 mm_loadu_si128(img, 3 * i + 32)>>}})


(***************************************************************************)
(* brightness_contrast_V0 (brightness_contrast_sse.c): 16 pixels per step  *)
(* in 16-bit lanes, then the remaining wh % 16 pixels one by one.          *)
(***************************************************************************)
\* the outcomes of converting a float outside the range of int16_t
\* (undefined behaviour): the low 16 bits of the truncated value, or the
\* nearest int16_t
Int16Conversions == {"wrap", "saturate"}

\* the low 30 bits of the integer part of x with the sign of x, for
\* |x| >= 2^30
XTruncLow(x) ==
  x.sg * BToInt(SubSeq(BShl(x.m, x.e) \o <<0, 0>>, 1, 2))

ToInt16(x, conv) ==
  Only({IF -32768 <= t /\ t <= 32767 THEN t
        ELSE IF conv = "wrap" THEN S16(t)
        ELSE IF t > 0 THEN 32767 ELSE -32768 :
        t \in {IF XBelowPow2(x, 30) THEN XTrunc(x) ELSE XTruncLow(x)}})

\* number of pixels handled by the 16-pixel loop: wh - (wh % 16)
BlockEnd(wh) == wh - (wh % 16)

\* the brightness added to 8 grey values and clamped to 0..255:
\* _mm_max_epi16(zero, _mm_min_epi16(max, _mm_add_epi16(g, brightness_vector)))
V0Adjust(g, brightness) ==
  IF brightness = 0 THEN g
  ELSE mm_max_epi16(mm_setzero_si128,
                    mm_min_epi16(mm_set1_epi16(255),
                                 mm_add_epi16(g, mm_set1_epi16(brightness))))

\* V0Store with mean_vector summed up at every 16th iteration
V0StoreEvery256(withContrast, st, i, grey1, grey2) ==
  Only({[result |-> [k \in 1..Len(st.result) |->
                      IF k > i /\ k <= i + 16 THEN r.out[k - i]
                      ELSE st.result[k]],
         pre    |-> [k \in 1..Len(st.pre) |->
                      IF k > i /\ k <= i + 8 THEN Signed16(r.l1[k - i])
                      ELSE IF k > i + 8 /\ k <= i + 16
                      THEN Signed16(r.l2[k - i - 8])
                      ELSE st.pre[k]],
         mean   |-> IF withContrast /\ i % 256 = 0
                    THEN st.mean + sum_mm_epi16(r.mv) ELSE st.mean,
         mean_vector |-> IF withContrast /\ i % 256 = 0
                         THEN mm_setzero_si128 ELSE r.mv] :
        r \in {[mv  |-> IF withContrast
                        THEN mm_add_epi16(mm_add_epi16(st.mean_vector, grey1),
                                          grey2)
                        ELSE st.mean_vector,
                out |-> mm_or_si128(mm_shuffle_epi8(grey1, mask_grey),
                                    mm_shuffle_epi8(grey2, mask_grey2)),
                l1  |-> Lanes16(grey1),
                l2  |-> Lanes16(grey2)]}})

\* what one step of the 16-pixel loop at pixel i does with grey1, grey2 on
\* st = [result, pre, mean, mean_vector]; pre holds the values before they
\* are narrowed to the bytes of result; r.mv is the mean_vector after the
\* additions, r.out the 16 bytes that are stored
V0Store(withContrast, st, i, grey1, grey2) ==
  Only({[result |-> [k \in 1..Len(st.result) |->
                      IF k > i /\ k <= i + 16 THEN r.out[k - i]
                      ELSE st.result[k]],
         pre    |-> [k \in 1..Len(st.pre) |->
                      IF k > i /\ k <= i + 8 THEN Signed16(r.l1[k - i])
                      ELSE IF k > i + 8 /\ k <= i + 16
                      THEN Signed16(r.l2[k - i - 8])
                      ELSE st.pre[k]],
         mean   |-> IF withContrast /\ i % 128 = 0
                    THEN st.mean + sum_mm_epi16(r.mv) ELSE st.mean,
         mean_vector |-> IF withContrast /\ i % 128 = 0
                         THEN mm_setzero_si128 ELSE r.mv] :
        r \in {[mv  |-> IF withContrast
                        THEN mm_add_epi16(mm_add_epi16(st.mean_vector, grey1),
                                          grey2)
                        ELSE st.mean_vector,
                out |-> mm_or_si128(mm_shuffle_epi8(grey1, mask_grey),
                                    mm_shuffle_epi8(grey2, mask_grey2)),
                l1  |-> Lanes16(grey1),
                l2  |-> Lanes16(grey2)]}})

\* one step of the 16-pixel loop at pixel i
V0Block(img, coeffs, brightness, withContrast, st, i) ==
  Only({V0Store(withContrast, st, i, V0Adjust(grey[1], brightness),
                V0Adjust(grey[2], brightness)) :
        grey \in {load_and_convert_to_grey16(img, i, coeffs)}})

\* the grey value of pixel i as the remainder loop computes it (int16_t res)
V0RemGrey(img, coeffs, i) ==
  S16((coeffs[1] * Red(img, i) + coeffs[2] * Green(img, i)
       + coeffs[3] * Blue(img, i)) \div 256)

\* V0RemPixel rounding the weighted sum to the nearest integer
V0RemPixelRounded(img, coeffs, brightness, i) ==
  LET grey == S16((coeffs[1] * Red(img, i) + coeffs[2] * Green(img, i)
                   + coeffs[3] * Blue(img, i) + 128) \div 256)
      res  == S16(grey + brightness)
  IN IF res > 255 THEN 255 ELSE IF res < 0 THEN 0 ELSE res

\* the value the remainder loop stores for pixel i, before narrowing
V0RemPixel(img, coeffs, brightness, i) ==
  IF brightness = 0 THEN V0RemGrey(img, coeffs, i)
  ELSE LET res == S16(V0RemGrey(img, coeffs, i) + brightness)
       IN IF res > 255 THEN 255 ELSE IF res < 0 THEN 0 ELSE res

\* one step of the remainder loop at pixel i
V0Rem(img, coeffs, brightness, withContrast, st, i) ==
  LET res == V0RemPixel(img, coeffs, brightness, i)
  IN [result |-> [st.result EXCEPT ![i + 1] = U8(res)],
      pre    |-> [st.pre EXCEPT ![i + 1] = res],
      mean   |-> IF withContrast THEN st.mean + res ELSE st.mean,
      mean_vector |-> st.mean_vector]

\* mean += sum_mm_epi16(mean_vector) after the 16-pixel loop
V0Flush(withContrast, st) ==
  IF withContrast
  THEN [st EXCEPT !.mean = @ + sum_mm_epi16(st.mean_vector)]
  ELSE st

\* the grey and brightness loops of all four cases
V0GreyLoop(img, wh, coeffs, brightness, withContrast, result) ==
  FoldRange(LAMBDA st, i : V0Rem(img, coeffs, brightness, withContrast, st, i),
            V0Flush(withContrast,
                    FoldRange(LAMBDA st, b :
                                V0Block(img, coeffs, brightness, withContrast,
                                        st, 16 * b),
                              [result |-> result, pre |-> result, mean |-> 0,
                               mean_vector |-> mm_setzero_si128],
                              0, BlockEnd(wh) \div 16 - 1)),
            BlockEnd(wh), wh - 1)

\* the variance: float lanes over the blocks, doubles over the remainder
V0VarVec(result, wh, neg_mean) ==
  FoldRange(LAMBDA vv, t :
              [l \in 1..4 |->
                 Only({F32Add(vv[l], F32Mul(acc, acc)) :
                       acc \in {F32Add(F32Int(result[4 * t + l]), neg_mean)}})],
            [l \in 1..4 |-> XZero], 0, BlockEnd(wh) \div 4 - 1)

\* vv is the float vector var_vec, summed by the two _mm_hadd_ps
V0Var(result, wh, mean) ==
  Only({F64Div(VarLoop(F32Add(F32Add(vv[1], vv[2]), F32Add(vv[3], vv[4])),
                       result, mean, BlockEnd(wh) + 1, wh), F64Int(wh)) :
        vv \in {V0VarVec(result, wh, F32(F64Mul(F64Int(-1), mean)))}})

\* the lookup table built through int16_t res
V0LookupRes(kstd, summand) ==
  [j \in 1..256 |-> LookupRes(kstd, summand, j - 1)]

V0Lookup(flt, conv) ==
  [j \in 1..256 |->
     Only({IF res > 255 THEN 255 ELSE IF res < 0 THEN 0 ELSE res :
           res \in {ToInt16(flt[j], conv)}})]


(***************************************************************************)
(* Which bytes of result the loops store.  writes[k] counts the stores to  *)
(* result[k - 1].                                                          *)
(***************************************************************************)
\* for (i = lo; i < hi; i++) result[i] = ...
LoopWrites(writes, lo, hi) ==
  [k \in 1..Len(writes) |-> IF lo < k /\ k <= hi THEN writes[k] + 1
                                                 ELSE writes[k]]

\* _mm_storeu_si128((__m128i *) (result + i), ...): the 16 bytes from i
BlockWrites(writes, i) == LoopWrites(writes, i, i + 16)

V0GreyWritesBlocksOnly(writes, wh) ==
  FoldRange(LAMBDA w, b : BlockWrites(w, 16 * b), writes,
            0, BlockEnd(wh) \div 16 - 1)

\* V0: for (i = 0; i < wh - (wh % 16); i += 16) a store of 16 bytes, then
\* for (i = wh - (wh % 16); i < wh; i++) a store of one byte
V0GreyWrites(writes, wh) ==
  LoopWrites(FoldRange(LAMBDA w, b : BlockWrites(w, 16 * b), writes,
                       0, BlockEnd(wh) \div 16 - 1),
             BlockEnd(wh), wh)

(***************************************************************************)
(* The inputs of the model.                                                *)
(***************************************************************************)
\* images have 2 pixels, or 1..MaxBlocks blocks of 16 pixels followed by
\* MaxRem remaining pixels
MaxBlocks == 1
MaxRem == 1
Sizes == {2} \cup {16 * nb + MaxRem : nb \in 1..MaxBlocks}

Palette == <<<<255, 0, 0>>, <<255, 255, 255>>, <<12, 200, 44>>, <<0, 0, 0>>>>

\* n pixels, p at the even and q at the odd positions
Image(p, q, n) ==
  [k \in 1..3 * n |-> IF ((k - 1) \div 3) % 2 = 0 THEN p[((k - 1) % 3) + 1]
                                                   ELSE q[((k - 1) % 3) + 1]]

PipeWeights == {<<1, 1, 1>>, <<1, 2, 3>>}
Brightnesses == {0, 100, -100}
\* NaN is the unset contrast
Contrasts == {NaN, F32Int(-41), F32Int(0), F32Int(255)}

(***************************************************************************)
(* State.  The three strategies are called one after the other on the     *)
(* same image, parameters and output buffer.                               *)
(***************************************************************************)
VARIABLES
  img, wh, a, b, c, brightness, contrast,  \* the arguments of the call
  V,          \* the strategy that is called
  pc,         \* position in the called strategy
  coeffs,     \* V0: the integer weights
  iters,      \* V0: iterations of the nudging loop (not in the code)
  result,     \* the output buffer
  mean, var,  \* doubles; mean holds the sum of the bytes until it is divided
  kstd, summand,
  lookup,
  ret,        \* the return value
  bright,     \* the output buffer as the brightness stage left it
  pre,        \* the values last stored in result and lookup, before narrowing
  writes,     \* how often the call has stored each byte of result (not in
              \* the code)
  main,       \* the locals of main and what the process left behind
  ppm,        \* the input file and the locals of readPPM
  sse,        \* V0: the position and the registers of the 16-pixel loop
  px,         \* one float grey value and the bytes that the brightness
              \* stages of V1 and V2 make of it
  outs        \* what the finished calls left behind

args == <<img, wh, a, b, c, brightness, contrast>>
weights == <<coeffs, iters>>
locals == <<weights, mean, var, kstd, summand, lookup, ret>>
vars == <<img, wh, a, b, c, brightness, contrast, V, pc, coeffs, iters, result,
          mean, var, kstd, summand, lookup, ret, bright, pre, writes, main,
          ppm, sse, px, outs>>

NoRun == [done |-> FALSE]
\* main is not part of the behaviour
NoMain == [pc |-> "off"]
\* readPPM is not part of the behaviour
NoPPM == [pc |-> "off"]
\* the 16-pixel loop is not followed step by step
NoSse == [pc |-> "off"]
\* no grey value is followed on its own
NoPx == [pc |-> "off"]
withContrast == ~isnan(contrast)

Init ==
  /\ \E i \in 1..Len(Palette), j \in 1..Len(Palette), n \in Sizes :
       i <= j /\ img = Image(Palette[i], Palette[j], n) /\ wh = n
  /\ \E w \in PipeWeights : a = w[1] /\ b = w[2] /\ c = w[3]
  /\ brightness \in Brightnesses
  /\ contrast \in Contrasts
  /\ V = 0
  /\ pc = "call"
  /\ coeffs = <<0, 0, 0>>
  /\ iters = 0
  /\ result = [i \in 1..wh |-> 0]
  /\ mean = XZero
  /\ var = XZero
  /\ kstd = XZero
  /\ summand = XZero
  /\ lookup = <<>>
  /\ ret = 1
  /\ bright = <<>>
  /\ pre = <<>>
  /\ writes = [i \in 1..wh |-> 0]
  /\ main = NoMain
  /\ ppm = NoPPM
  /\ sse = NoSse
  /\ px = NoPx
  /\ outs = [v \in 0..2 |-> NoRun]

\* main calls the strategy: its locals start afresh
Call ==
  /\ pc = "call"
  /\ pc' = IF V = 0 THEN "coeffs" ELSE "grey"
  /\ coeffs' = <<0, 0, 0>>
  /\ iters' = 0
  /\ mean' = XZero
  /\ var' = XZero
  /\ kstd' = XZero
  /\ summand' = XZero
  /\ lookup' = <<>>
  /\ ret' = 1
  /\ bright' = <<>>
  /\ pre' = <<>>
  /\ writes' = [i \in 1..wh |-> 0]
  /\ UNCHANGED <<px, sse, ppm, main, args, V, result, outs>>

\* AfterBright without the test of the contrast
AfterBrightAlwaysStats == "stats"

\* where a strategy goes after its brightness stage
AfterBright == IF withContrast THEN "stats" ELSE "ret"


\* the contrast factor step, the same text in the three strategies
FactorStep(next) ==
  /\ \E f \in {Factor(contrast, var, mean)} :
       /\ kstd' = f.kstd
       /\ summand' = f.summand
       /\ ret' = IF f.ok THEN 1 ELSE 0
       /\ pc' = IF f.ok THEN next ELSE "ret"
  /\ UNCHANGED <<px, sse, ppm, main, args, V, weights, result, mean, var, lookup, bright, pre,
                 writes, outs>>

\* result[i] = lookup[result[i]]
RemapStep ==
  /\ result' = [i \in 1..wh |-> lookup[result[i] + 1]]
  /\ writes' = LoopWrites(writes, 0, wh)
  /\ pc' = "ret"
  /\ UNCHANGED <<px, sse, ppm, main, args, V, locals, bright, pre, outs>>

(***************************************************************************)
(* The steps of brightness_contrast_V0.                                    *)
(***************************************************************************)
V0_Coeffs ==
  /\ V = 0 /\ pc = "coeffs"
  /\ \E r \in {convert_coeffs_to_max256(a, b, c)} :
       coeffs' = r.co /\ iters' = r.it
  /\ pc' = "grey"
  /\ UNCHANGED <<px, sse, ppm, main, args, V, result, mean, var, kstd, summand, lookup, ret,
                 bright, pre, writes, outs>>

V0_Grey ==
  /\ V = 0 /\ pc = "grey"
  /\ \E s \in {V0GreyLoop(img, wh, coeffs, brightness, withContrast, result)} :
       /\ result' = s.result
       /\ bright' = s.result
       /\ pre' = s.pre
       /\ mean' = F64Int(s.mean)
  /\ writes' = V0GreyWrites(writes, wh)
  /\ pc' = AfterBright
  /\ UNCHANGED <<px, sse, ppm, main, args, V, weights, var, kstd, summand, lookup, ret, outs>>

V0_Stats ==
  /\ V = 0 /\ pc = "stats"
  /\ mean' = MeanOf(mean, wh)
  /\ var' = V0Var(result, wh, mean')
  /\ pc' = "factor"
  /\ UNCHANGED <<px, sse, ppm, main, args, V, weights, result, kstd, summand, lookup, ret,
                 bright, pre, writes, outs>>

V0_Factor == V = 0 /\ pc = "factor" /\ FactorStep("lookup")

V0_Lookup ==
  /\ V = 0 /\ pc = "lookup"
  /\ \E flt \in {Evaluated(V0LookupRes(kstd, summand))} :
       \E conv \in Int16Conversions : lookup' = V0Lookup(flt, conv)
  /\ pre' = lookup'
  /\ pc' = "remap"
  /\ UNCHANGED <<px, sse, ppm, main, args, V, weights, result, mean, var, kstd, summand, ret,
                 bright, writes, outs>>

V0_Remap == V = 0 /\ pc = "remap" /\ RemapStep

(***************************************************************************)
(* The steps of brightness_contrast_V1.                                    *)
(***************************************************************************)
\* V1_Grey adding the new value to the byte that the buffer held before
V1_GreyOntoOld ==
  /\ V = 1 /\ pc = "grey"
  /\ pre' = Evaluated(V1GreyLoop(img, wh, a, b, c, brightness))
  /\ result' = [i \in 1..wh |-> U8(result[i] + pre'[i])]
  /\ bright' = result'
  /\ mean' = IF withContrast THEN F64Int(SumSeq(result')) ELSE mean
  /\ writes' = LoopWrites(writes, 0, wh)
  /\ pc' = AfterBright
  /\ UNCHANGED <<px, sse, ppm, main, args, V, weights, var, kstd, summand, lookup, ret, outs>>

V1_Grey ==
  /\ V = 1 /\ pc = "grey"
  /\ pre' = Evaluated(V1GreyLoop(img, wh, a, b, c, brightness))
  /\ result' = [i \in 1..wh |-> U8(pre'[i])]
  /\ bright' = result'
  /\ mean' = IF withContrast THEN F64Int(SumSeq(result')) ELSE mean
  /\ writes' = LoopWrites(writes, 0, wh)
  /\ pc' = AfterBright
  /\ UNCHANGED <<px, sse, ppm, main, args, V, weights, var, kstd, summand, lookup, ret, outs>>

\* V1_Stats with the variance taken around the sum of the bytes, before
\* mean /= wh
V1_StatsVarBeforeMean ==
  /\ V = 1 /\ pc = "stats"
  /\ mean' = MeanOf(mean, wh)
  /\ var' = F64Div(VarLoop(XZero, result, mean, 1, wh), F64Int(wh))
  /\ pc' = "factor"
  /\ UNCHANGED <<px, sse, ppm, main, args, V, weights, result, kstd, summand,
                 lookup, ret, bright, pre, writes, outs>>

V1_Stats ==
  /\ V = 1 /\ pc = "stats"
  /\ mean' = MeanOf(mean, wh)
  /\ var' = F64Div(VarLoop(XZero, result, mean', 1, wh), F64Int(wh))
  /\ pc' = "factor"
  /\ UNCHANGED <<px, sse, ppm, main, args, V, weights, result, kstd, summand, lookup, ret,
                 bright, pre, writes, outs>>

V1_Factor == V = 1 /\ pc = "factor" /\ FactorStep("lookup")

V1_Lookup ==
  /\ V = 1 /\ pc = "lookup"
  /\ pre' = Evaluated(V1Lookup(kstd, summand))
  /\ lookup' = [j \in 1..256 |-> U8(pre'[j])]
  /\ pc' = "remap"
  /\ UNCHANGED <<px, sse, ppm, main, args, V, weights, result, mean, var, kstd, summand, ret,
                 bright, writes, outs>>

V1_Remap == V = 1 /\ pc = "remap" /\ RemapStep

(***************************************************************************)
(* The steps of brightness_contrast_V2.                                    *)
(***************************************************************************)
V2_Grey ==
  /\ V = 2 /\ pc = "grey"
  /\ pre' = Evaluated(V2GreyLoop(img, wh, a, b, c))
  /\ result' = [i \in 1..wh |-> U8(pre'[i])]
  /\ bright' = IF brightness # 0 THEN bright ELSE result'
  /\ writes' = LoopWrites(writes, 0, wh)
  /\ pc' = IF brightness # 0 THEN "bright" ELSE AfterBright
  /\ UNCHANGED <<px, sse, ppm, main, args, V, locals, outs>>

V2_Bright ==
  /\ V = 2 /\ pc = "bright"
  /\ pre' = Evaluated(V2BrightLoop(result, brightness))
  /\ result' = [i \in 1..wh |-> U8(pre'[i])]
  /\ bright' = result'
  /\ writes' = LoopWrites(writes, 0, wh)
  /\ pc' = AfterBright
  /\ UNCHANGED <<px, sse, ppm, main, args, V, locals, outs>>

V2_Stats ==
  /\ V = 2 /\ pc = "stats"
  /\ mean' = MeanOf(F64Int(SumSeq(result)), wh)
  /\ var' = F64Div(VarLoop(XZero, result, mean', 1, wh), F64Int(wh))
  /\ pc' = "factor"
  /\ UNCHANGED <<px, sse, ppm, main, args, V, weights, result, kstd, summand, lookup, ret,
                 bright, pre, writes, outs>>

V2_Factor == V = 2 /\ pc = "factor" /\ FactorStep("remap")

V2_Remap ==
  /\ V = 2 /\ pc = "remap"
  /\ pre' = Evaluated(V2ContrastLoop(result, kstd, mean))
  /\ result' = [i \in 1..wh |-> U8(pre'[i])]
  /\ writes' = LoopWrites(writes, 0, wh)
  /\ pc' = "ret"
  /\ UNCHANGED <<px, sse, ppm, main, args, V, locals, bright, outs>>

(***************************************************************************)
(* The call returns; main goes on to the next strategy.                    *)
(***************************************************************************)
Return ==
  /\ pc = "ret"
  /\ outs' = [outs EXCEPT ![V] =
                [done |-> TRUE, ret |-> ret, result |-> result,
                 bright |-> bright, coeffs |-> coeffs, mean |-> mean,
                 var |-> var, kstd |-> kstd, summand |-> summand,
                 lookup |-> lookup, writes |-> writes]]
  /\ V' = IF V < 2 THEN V + 1 ELSE V
  /\ pc' = IF V < 2 THEN "call" ELSE "done"
  /\ UNCHANGED <<px, sse, ppm, main, args, locals, result, bright, pre, writes>>

Next ==
  \/ Call
  \/ V0_Coeffs \/ V0_Grey \/ V0_Stats \/ V0_Factor \/ V0_Lookup \/ V0_Remap
  \/ V1_Grey \/ V1_Stats \/ V1_Factor \/ V1_Lookup \/ V1_Remap
  \/ V2_Grey \/ V2_Bright \/ V2_Stats \/ V2_Factor \/ V2_Remap
  \/ Return

Spec == Init /\ [][Next]_vars


(***************************************************************************)
(* The call of brightness_contrast_V0 up to its integer weights, for all   *)
(* small weight triples and for triples whose sum reaches 256.             *)
(***************************************************************************)
InitCoeffs ==
  /\ img = Image(Palette[1], Palette[Len(Palette)], 2)
  /\ wh = 2
  /\ \E w \in SmallWeights \cup BigWeights : a = w[1] /\ b = w[2] /\ c = w[3]
  /\ brightness = 0
  /\ contrast = NaN
  /\ V = 0
  /\ pc = "call"
  /\ coeffs = <<0, 0, 0>>
  /\ iters = 0
  /\ result = [i \in 1..wh |-> 0]
  /\ mean = XZero
  /\ var = XZero
  /\ kstd = XZero
  /\ summand = XZero
  /\ lookup = <<>>
  /\ ret = 1
  /\ bright = <<>>
  /\ pre = <<>>
  /\ writes = [i \in 1..wh |-> 0]
  /\ main = NoMain
  /\ ppm = NoPPM
  /\ sse = NoSse
  /\ px = NoPx
  /\ outs = [v \in 0..2 |-> NoRun]

NextCoeffs == Call \/ V0_Coeffs

SpecCoeffs == InitCoeffs /\ [][NextCoeffs]_vars


(***************************************************************************)
(* main from the strategy calls on: the repetitions for -B, the test of    *)
(* the last return value, the output file.  The strategies are public      *)
(* functions that take any float as contrast; CallContrasts has the values *)
(* with which their failure branch is taken, which are outside the range   *)
(* that checkParams lets through.                                          *)
(***************************************************************************)
Pow2(e) == [sg |-> 1, m |-> <<1>>, e |-> e]
CallContrasts == {NaN, F32Int(-41), Pow2(126), Pow2(127)}
CallBrightnesses == {0, 31, -255}
CallWeights == {<<1, 1, 1>>, <<1, 1, 3>>}
\* the colours at the even and at the odd positions of the image
CallColours == {<<<<255, 0, 0>>, <<12, 200, 44>>>>,
                <<<<255, 255, 255>>, <<3, 164, 1>>>>}
Repetitions == {0, 1, 2}
\* what malloc can leave in new_pixels
HeapBytes == {0, 255}

\* a weight is NaN
HasNaN(w) == isnan(w[1]) \/ isnan(w[2]) \/ isnan(w[3])

\* where a call of the strategy starts: with a NaN among the weights the
\* strategies convert a NaN to an integer type, which is undefined
Entry == IF HasNaN(main.coeffs) THEN "undefined" ELSE "call"

\* do { exec_res = brightness_contrast_Vx(...); counter++; }
\* while (counter < B_option);
MainLoop ==
  /\ main.pc = "run"
  /\ pc = "ret"
  /\ main' = [main EXCEPT
                !.exec_res = ret,
                !.counter = @ + 1,
                !.calls = Append(@, [V |-> V, ret |-> ret, result |-> result]),
                !.pc = IF main.counter + 1 < main.B_option THEN "run"
                                                           ELSE "test"]
  /\ pc' = IF main.counter + 1 < main.B_option THEN Entry ELSE "done"
  /\ UNCHANGED <<px, sse, ppm, args, V, locals, result, bright, pre, writes, outs>>

\* if (!exec_res) return EXIT_FAILURE; retPGM = writePGM(...);
\* if (!retPGM) return EXIT_FAILURE; return EXIT_SUCCESS;
\* writePGM returns 0 when fopen fails
MainExit ==
  /\ main.pc = "test"
  /\ \/ /\ main.exec_res = 0
        /\ main' = [main EXCEPT !.pc = "exit", !.exit = "failure"]
     \/ /\ main.exec_res # 0
        /\ \E retPGM \in {0, 1} :
             main' = [main EXCEPT
                        !.pc = "exit",
                        !.file = IF retPGM = 1 THEN <<result>> ELSE @,
                        !.exit = IF retPGM = 1 THEN "success" ELSE "failure"]
  /\ UNCHANGED <<px, sse, ppm, args, V, pc, locals, result, bright, pre, writes, outs>>

InitCall ==
  /\ \E pq \in CallColours, n \in Sizes :
       img = Image(pq[1], pq[2], n) /\ wh = n
  /\ \E w \in CallWeights : a = w[1] /\ b = w[2] /\ c = w[3]
  /\ brightness \in CallBrightnesses
  /\ contrast \in CallContrasts
  /\ V \in 0..2
  /\ pc = "call"
  /\ coeffs = <<0, 0, 0>>
  /\ iters = 0
  /\ \E h \in HeapBytes : result = [i \in 1..wh |-> h]
  /\ mean = XZero
  /\ var = XZero
  /\ kstd = XZero
  /\ summand = XZero
  /\ lookup = <<>>
  /\ ret = 1
  /\ bright = <<>>
  /\ pre = <<>>
  /\ writes = [i \in 1..wh |-> 0]
  /\ \E B \in Repetitions :
       main = [pc |-> "run", V_option |-> V, B_option |-> B,
               input_filename |-> "input.ppm",
               output_filename |-> "output.pgm",
               coeffs |-> <<XInt(a), XInt(b), XInt(c)>>,
               checked |-> 1, read |-> TRUE, counter |-> 0, exec_res |-> 0,
               calls |-> <<>>, file |-> <<>>, exit |-> "none"]
  /\ ppm = NoPPM
  /\ sse = NoSse
  /\ px = NoPx
  /\ outs = [v \in 0..2 |-> NoRun]

NextCall ==
  \/ Call
  \/ V0_Coeffs \/ V0_Grey \/ V0_Stats \/ V0_Factor \/ V0_Lookup \/ V0_Remap
  \/ V1_Grey \/ V1_Stats \/ V1_Factor \/ V1_Lookup \/ V1_Remap
  \/ V2_Grey \/ V2_Bright \/ V2_Stats \/ V2_Factor \/ V2_Remap
  \/ MainLoop
  \/ MainExit

SpecCall == InitCall /\ [][NextCall]_vars


(***************************************************************************)
(* main from the call of checkParams on, for parameters as the option      *)
(* parsing can leave them: brightness, contrast and the version are any    *)
(* int (contrast also unset), -B any int but an explicit 0, the weights    *)
(* any float that sscanf reads with %f, NaN included; both file names are  *)
(* set.                                                                    *)
(***************************************************************************)
NULL == "NULL"
MAX_VERSION == 2

\* C comparisons and sums of doubles, where x and y may be NaN
DLess(x, y) == ~isnan(x) /\ ~isnan(y) /\ XLt(x, y)
DAdd(x, y) == IF isnan(x) \/ isnan(y) THEN NaN ELSE F64Add(x, y)
DIsZero(x) == ~isnan(x) /\ XIsZero(x)

checkParams(V_option, B_option, input_filename, output_filename, wa, wb, wc, br, ct) ==
  IF br < -255 \/ br > 255 THEN 0
  ELSE IF ~isnan(ct) /\ (DLess(ct, XInt(-255)) \/ DLess(XInt(255), ct)) THEN 0
  ELSE IF DLess(wa, XZero) \/ DLess(wb, XZero) \/ DLess(wc, XZero) THEN 0
  ELSE IF V_option < 0 \/ V_option > MAX_VERSION THEN 0
  ELSE IF B_option < 0 THEN 0
  ELSE IF output_filename = NULL THEN 0
  ELSE IF input_filename = NULL THEN 0
  ELSE IF DIsZero(DAdd(DAdd(wa, wb), wc)) THEN 0
  ELSE 1

MainBrightnesses == {0, 100, 256, -256}
MainContrasts == {NaN, F32Int(-41), F32Int(256), F32Int(-256)}
MainVersions == {-1, 0, 1, 2, 3}
MainRepetitions == {-1, 0, 2}
MainWeights == {<<XInt(1), XInt(1), XInt(1)>>, <<XInt(1), XInt(2), XInt(3)>>,
                <<XInt(-1), XInt(1), XInt(1)>>, <<XZero, XZero, XZero>>,
                <<NaN, XInt(1), XInt(1)>>}

\* the float weight as the integer that the strategy actions take
WeightInt(x) == IF isnan(x) THEN 0 ELSE XTrunc(x)

\* if (!checkParams(...)) return EXIT_FAILURE;
MainCheck ==
  /\ main.pc = "params"
  /\ \E r \in {checkParams(main.V_option, main.B_option,
                            main.input_filename, main.output_filename,
                            main.coeffs[1], main.coeffs[2], main.coeffs[3],
                            brightness, contrast)} :
       main' = [main EXCEPT !.checked = r,
                            !.pc = IF r = 1 THEN "read" ELSE "exit",
                            !.exit = IF r = 1 THEN @ ELSE "failure"]
  /\ UNCHANGED <<px, sse, ppm, args, V, pc, locals, result, bright, pre, writes, outs>>

\* readPPM, the size check, malloc of new_pixels, counter = 0, and the
\* switch on V_option, whose default is V0; main ends with a failure when
\* the image cannot be read or the buffer not be allocated
MainRead ==
  /\ main.pc = "read"
  /\ \/ /\ main' = [main EXCEPT !.read = TRUE, !.pc = "exit",
                                 !.exit = "failure"]
        /\ UNCHANGED <<args, V, pc, result, writes>>
     \/ /\ \E pq \in CallColours, n \in Sizes :
             img' = Image(pq[1], pq[2], n) /\ wh' = n
        /\ \E h \in HeapBytes : result' = [i \in 1..wh' |-> h]
        /\ writes' = [i \in 1..wh' |-> 0]
        /\ main' = [main EXCEPT !.read = TRUE, !.pc = "run", !.counter = 0]
        /\ V' = IF main.V_option \in {1, 2} THEN main.V_option ELSE 0
        /\ pc' = Entry
        /\ UNCHANGED <<a, b, c, brightness, contrast>>
  /\ UNCHANGED <<px, sse, ppm, locals, bright, pre, outs>>

\* a call of the strategy with a NaN among the weights: what it returns
\* and what it leaves in the buffer is not defined
MainUndefined ==
  /\ main.pc = "run"
  /\ pc = "undefined"
  /\ ret' \in {0, 1}
  /\ \E h \in HeapBytes : result' = [i \in 1..wh |-> h]
  /\ pc' = "ret"
  /\ UNCHANGED <<px, sse, ppm, main, args, V, weights, mean, var, kstd, summand, lookup,
                 bright, pre, writes, outs>>

InitMain ==
  /\ img = <<>>
  /\ wh = 0
  /\ brightness \in MainBrightnesses
  /\ contrast \in MainContrasts
  /\ \E w \in MainWeights, Vo \in MainVersions, B \in MainRepetitions :
       /\ a = WeightInt(w[1]) /\ b = WeightInt(w[2]) /\ c = WeightInt(w[3])
       /\ main = [pc |-> "params", V_option |-> Vo, B_option |-> B,
                  input_filename |-> "input.ppm",
                  output_filename |-> "output.pgm",
                  coeffs |-> w,
                  checked |-> -1, read |-> FALSE, counter |-> 0,
                  exec_res |-> 0, calls |-> <<>>, file |-> <<>>,
                  exit |-> "none"]
  /\ V = 0
  /\ pc = "main"
  /\ coeffs = <<0, 0, 0>>
  /\ iters = 0
  /\ result = <<>>
  /\ mean = XZero
  /\ var = XZero
  /\ kstd = XZero
  /\ summand = XZero
  /\ lookup = <<>>
  /\ ret = 1
  /\ bright = <<>>
  /\ pre = <<>>
  /\ writes = <<>>
  /\ ppm = NoPPM
  /\ sse = NoSse
  /\ px = NoPx
  /\ outs = [v \in 0..2 |-> NoRun]

NextMain ==
  \/ MainCheck
  \/ MainRead
  \/ MainUndefined
  \/ Call
  \/ V0_Coeffs \/ V0_Grey \/ V0_Stats \/ V0_Factor \/ V0_Lookup \/ V0_Remap
  \/ V1_Grey \/ V1_Stats \/ V1_Factor \/ V1_Lookup \/ V1_Remap
  \/ V2_Grey \/ V2_Bright \/ V2_Stats \/ V2_Factor \/ V2_Remap
  \/ MainLoop
  \/ MainExit

SpecMain == InitMain /\ [][NextMain]_vars


(***************************************************************************)
(* readPPM (main.c).  A file is a sequence of bytes, each a string of one  *)
(* character.  ppm.file is the input and ppm.pos the number of bytes read  *)
(* from it; ppm.buffer holds the bytes written to buffer[0 .. i - 1] for   *)
(* the current token.  ppm.toks, ppm.seps and ppm.rest say how the file    *)
(* was put together (not in the code).  Numbers read from the file are     *)
(* kept as sequences of limbs, as a long holds more than an integer here.  *)
(***************************************************************************)
buflen == 64
EOF == "EOF"
IsWS(ch) == ch \in {" ", "\t", "\r", "\n"}
IsEOL(ch) == ch \in {"\r", "\n"}
Digits == <<"0", "1", "2", "3", "4", "5", "6", "7", "8", "9">>
IsDigit(ch) == \E d \in 1..10 : Digits[d] = ch
DigitVal(ch) == (CHOOSE d \in 1..10 : Digits[d] = ch) - 1

LONG_MAX == BSub(BShl(<<1>>, 63), <<1>>)
SIZE_MAX == BSub(BShl(<<1>>, 64), <<1>>)

\* a sequence of digits without its leading zeros
Significant(ds) ==
  IF \A k \in 1..Len(ds) : ds[k] = "0" THEN <<>>
  ELSE SubSeq(ds, CHOOSE k \in 1..Len(ds) :
                    ds[k] # "0" /\ \A j \in 1..(k - 1) : ds[j] = "0",
              Len(ds))

\* the value of a sequence of digits
RECURSIVE DigitsValue(_, _)
DigitsValue(ds, acc) ==
  IF ds = <<>> THEN BTrim(acc)
  ELSE DigitsValue(Tail(ds),
                   BAdd(BMulD(acc, 10, 0), BFromInt(DigitVal(Head(ds)))))

\* strtol(str, &endptr, 10) on a token and the tests of stringToLong:
\* an optional sign, then digits up to the end of the token, and no ERANGE
stringToLong(str) ==
  Only({IF ds = <<>> \/ \E k \in 1..Len(ds) : ~IsDigit(ds[k])
        THEN [ok |-> 0, neg |-> FALSE, mag |-> <<>>]
        ELSE Only({[ok  |-> IF BCmp(m, IF Head(str) = "-"
                                       THEN BShl(<<1>>, 63) ELSE LONG_MAX) > 0
                            THEN 0 ELSE 1,
                    neg |-> Head(str) = "-" /\ m # <<>>,
                    mag |-> m] : m \in {DigitsValue(Significant(ds), <<>>)}}) :
        ds \in {IF str # <<>> /\ Head(str) \in {"+", "-"} THEN Tail(str)
                ELSE str}})

\* what fread(&curr, 1, 1, fp) reads
Fread(p) == IF p.pos < Len(p.file) THEN p.file[p.pos + 1] ELSE EOF

\* while (curr != '\r' && curr != '\n') fread(&curr, 1, 1, fp): the number
\* of bytes read when the loop ends, 0 if the file ends first
EolAfter(file, pos) ==
  IF \E k \in (pos + 1)..Len(file) : IsEOL(file[k])
  THEN CHOOSE k \in (pos + 1)..Len(file) :
         IsEOL(file[k]) /\ \A j \in (pos + 1)..(k - 1) : ~IsEOL(file[j])
  ELSE 0

\* exit(EXIT_FAILURE) after the message err
Exit(p, err) == [p EXCEPT !.pc = "exit", !.err = err]

\* i < buflen - 1 || numWP >= 3
LoopCond == ppm.i < buflen - 1 \/ ppm.numWP >= 3

\* not in the code: ppm.top is the largest index i of a store to buffer[i]
\* so far, -1 before the first
Stored(p) == [p EXCEPT !.top = IF p.i > @ THEN p.i ELSE @]

\* what a store to buffer[i] can do: beyond the array it is undefined; it
\* ends the process or goes on as if the array were longer
Stores == IF ppm.i < buflen THEN {"defined"} ELSE {"crash", "continue"}

\* the loop ends as its condition is false
PPMLoopEnd ==
  /\ ppm.pc = "loop"
  /\ ~LoopCond
  /\ ppm' = [ppm EXCEPT !.pc = "data"]
  /\ UNCHANGED <<px, sse, main, args, V, pc, locals, result, bright, pre, writes, outs>>

\* fread finds the end of the file
PPMEof ==
  /\ ppm.pc = "loop"
  /\ LoopCond
  /\ Fread(ppm) = EOF
  /\ ppm' = Exit(ppm, "Error reading file.")
  /\ UNCHANGED <<px, sse, main, args, V, pc, locals, result, bright, pre, writes, outs>>

\* skips the comment that starts with the byte just read
SkipComment(p, i) ==
  Only({IF e = 0 THEN Exit([p EXCEPT !.pos = Len(p.file)],
                           "Error reading file.")
        ELSE [p EXCEPT !.pos = e, !.i = i] :
        e \in {EolAfter(p.file, p.pos + 1)}})

\* between two tokens: whitespace and comments are passed over
PPMBetween ==
  /\ ppm.pc = "loop"
  /\ LoopCond
  /\ ppm.token_switch = 1
  /\ \E curr \in {Fread(ppm)} :
       \/ /\ IsWS(curr)
          /\ ppm' = [ppm EXCEPT !.pos = @ + 1, !.i = 0]
       \/ /\ curr = "#"
          /\ ppm' = SkipComment(ppm, 0)
  /\ UNCHANGED <<px, sse, main, args, V, pc, locals, result, bright, pre, writes, outs>>

\* a comment that starts inside a token, or where the first token is to
\* start: it is passed over with the line end that closes it, and the
\* token goes on
PPMComment ==
  /\ ppm.pc = "loop"
  /\ LoopCond
  /\ ppm.token_switch = 0
  /\ Fread(ppm) = "#"
  /\ ppm' = SkipComment(ppm, ppm.i)
  /\ UNCHANGED <<px, sse, main, args, V, pc, locals, result, bright, pre, writes, outs>>

\* a byte of a token: buffer[i] = curr
PPMChar ==
  /\ ppm.pc = "loop"
  /\ LoopCond
  /\ \E curr \in {Fread(ppm)} :
       /\ curr # EOF /\ curr # "#" /\ ~IsWS(curr)
       /\ \E o \in Stores :
            ppm' = IF o = "crash" THEN [Stored(ppm) EXCEPT !.pc = "crash"]
                   ELSE [Stored(ppm) EXCEPT
                           !.pos = @ + 1, !.token_switch = 0,
                           !.buffer = Append(SubSeq(@, 1, ppm.i), curr),
                           !.i = @ + 1]
  /\ UNCHANGED <<px, sse, main, args, V, pc, locals, result, bright, pre, writes, outs>>

\* the tests of the token in buffer, which is token number numWP
TokenEnd(p, str) ==
  IF p.numWP = 0
  THEN IF Len(str) < 1 \/ str[1] # "P" \/ Len(str) < 2 \/ str[2] # "6"
       THEN Exit(p, "Format of ppm must be P6")
       ELSE [p EXCEPT !.token_switch = 1, !.i = 0, !.numWP = 1]
  ELSE Only({
    IF p.numWP = 1
    THEN IF n.ok = 0 \/ n.neg \/ n.mag = <<>>
         THEN Exit(p, "Invalid image width")
         ELSE [p EXCEPT !.width = n.mag, !.token_switch = 1, !.i = 0,
                        !.numWP = 2]
    ELSE IF p.numWP = 2
    THEN IF n.ok = 0 \/ n.neg \/ n.mag = <<>>
         THEN Exit(p, "Invalid image height")
         ELSE [p EXCEPT !.height = n.mag, !.token_switch = 1, !.i = 0,
                        !.numWP = 3]
    ELSE IF p.numWP = 3
    THEN IF n.ok # 1 THEN Exit(p, "Invalid max color value")
         ELSE IF n.neg \/ n.mag = <<>> \/ BCmp(n.mag, BFromInt(256)) >= 0
         THEN Exit([p EXCEPT !.maxval = n], "Invalid maximum value")
         ELSE [p EXCEPT !.maxval = n, !.pc = "data"]
    ELSE Exit(p, "Error parsing image") :
    n \in {stringToLong(str)}})

\* whitespace ends a token: buffer[i] = '\0' and the tests of the token
PPMToken ==
  /\ ppm.pc = "loop"
  /\ LoopCond
  /\ ppm.token_switch = 0
  /\ IsWS(Fread(ppm))
  /\ \E o \in Stores :
       ppm' = IF o = "crash" THEN [Stored(ppm) EXCEPT !.pc = "crash"]
              ELSE TokenEnd([Stored(ppm) EXCEPT !.pos = @ + 1],
                            SubSeq(ppm.buffer, 1, ppm.i))
  /\ UNCHANGED <<px, sse, main, args, V, pc, locals, result, bright, pre, writes, outs>>

\* after the header: if (numWP != 3) exit, the size 3 * height * width
\* without overflow, malloc, and the pixels read by a single fread
PPMData ==
  /\ ppm.pc = "data"
  /\ \E size \in {BMul(BMul(<<3>>, ppm.height), ppm.width)}, m \in {0, 1} :
       ppm' = IF ppm.numWP # 3 THEN Exit(ppm, "Image format corrupted")
              ELSE IF BCmp(BMul(<<3>>, ppm.height), SIZE_MAX) > 0
                      \/ BCmp(size, SIZE_MAX) > 0
              THEN Exit(ppm, "Image too big")
              ELSE IF m = 0
              THEN Exit(ppm, "Unable to allocate memory for image")
              ELSE IF BCmp(size, BFromInt(Len(ppm.file) - ppm.pos)) > 0
              THEN Exit([ppm EXCEPT !.pos = Len(ppm.file)],
                        "Error loading image data")
              ELSE [ppm EXCEPT
                      !.pc = "done",
                      !.data = SubSeq(ppm.file, ppm.pos + 1,
                                      ppm.pos + BToInt(size)),
                      !.pos = @ + BToInt(size)]
  /\ UNCHANGED <<px, sse, main, args, V, pc, locals, result, bright, pre, writes, outs>>

\* n times the byte ch
Run(ch, n) == [k \in 1..n |-> ch]

\* the first token, the tokens for width and height, the tokens for maxval
FormatTokens == {<<"P", "6">>, <<"P", "6", "5">>, <<"P", "5">>, <<"P">>}
SizeTokens == {<<"2">>, <<"1">>, <<"+", "2">>, <<"0">>, <<"-", "1">>,
               <<"2", "x">>, Run("0", buflen - 3) \o <<"2">>,
               Run("0", buflen - 2) \o <<"2">>, Run("9", 19)}
MaxvalTokens == {<<"2", "5", "5">>, <<"2", "5", "6">>, <<"0">>, <<"1">>,
                 <<"x">>, Run("0", buflen - 4) \o <<"2", "5", "5">>,
                 Run("0", buflen - 3) \o <<"2", "5", "5">>}
\* runs of whitespace and comments
Separators == {<<" ">>, <<"\n">>, <<"\t", "\r", "\n">>,
               <<" ", "#", "c", "\n">>, <<"\n", "#", " ", "c", "\r", "\n", " ">>,
               <<"#", "c", "\n", " ">>, <<"#", "c", "\n">>}
\* what follows the maxval token
Rests == {<<"\n", "a", "b", "c", "d", "e", "f">>,
          <<" ", "\n", "#", " ", "2", "\n", "x">>,
          <<"\n", "a", "b", "c">>, <<>>,
          <<"#", "c", "\n", "\n", "a", "b", "c", "d", "e", "f">>}

PPMFile(toks, seps, rest) ==
  toks[1] \o seps[1] \o toks[2] \o seps[2] \o toks[3] \o seps[3] \o toks[4]
  \o rest

\* the files of the model: the tokens P6, 2, 1, 255 with all separators,
\* and all tokens with the plain separators
PPMInputs ==
  {<<<<<<"P", "6">>, <<"2">>, <<"1">>, <<"2", "5", "5">>>>, seps, rest>> :
     seps \in Separators \X Separators \X Separators, rest \in Rests}
  \cup
  {<<<<f, w, h, m>>, <<s, <<" ">>, s>>, <<"\n", "a", "b", "c", "d", "e", "f">>>> :
     f \in FormatTokens, w \in SizeTokens, h \in {<<"1">>, <<"0">>},
     m \in MaxvalTokens, s \in {<<"\n">>, <<"\t", "\r", "\n">>}}

InitPPM ==
  /\ \E in \in PPMInputs :
       ppm = [pc |-> "loop", file |-> PPMFile(in[1], in[2], in[3]),
              toks |-> in[1], seps |-> in[2], rest |-> in[3],
              pos |-> 0, i |-> 0, numWP |-> 0, token_switch |-> 0,
              buffer |-> <<>>, width |-> <<>>, height |-> <<>>,
              maxval |-> [ok |-> 0, neg |-> TRUE, mag |-> <<1>>],
              data |-> <<>>, err |-> "", top |-> -1]
  /\ main = NoMain
  /\ sse = NoSse
  /\ px = NoPx
  /\ img = <<>>
  /\ wh = 0
  /\ a = 1 /\ b = 1 /\ c = 1
  /\ brightness = 0
  /\ contrast = NaN
  /\ V = 0
  /\ pc = "main"
  /\ coeffs = <<0, 0, 0>>
  /\ iters = 0
  /\ result = <<>>
  /\ mean = XZero
  /\ var = XZero
  /\ kstd = XZero
  /\ summand = XZero
  /\ lookup = <<>>
  /\ ret = 1
  /\ bright = <<>>
  /\ pre = <<>>
  /\ writes = <<>>
  /\ outs = [v \in 0..2 |-> NoRun]

NextPPM ==
  \/ PPMLoopEnd \/ PPMEof \/ PPMBetween \/ PPMComment \/ PPMChar \/ PPMToken
  \/ PPMData

SpecPPM == InitPPM /\ [][NextPPM]_vars


(***************************************************************************)
(* The 16-pixel loop of brightness_contrast_V0 with contrast, one          *)
(* iteration at a time.  sse.i is the loop variable, sse.mean the double   *)
(* mean, which holds an integer, sse.mean_vector the register of partial   *)
(* sums.  Not in the code: sse.kept has for each lane the sum of the grey  *)
(* values added to it since the register was last set to zero, and         *)
(* sse.added that sum as it was before the test of i % 128, both without   *)
(* wrapping; sse.loads and sse.stores are the offsets in img and in result  *)
(* of the bytes the last step read and wrote, sse.blocks and sse.rest the  *)
(* offsets in result written so far by the 16-pixel loop and by the loop   *)
(* of the remaining pixels.                                                *)
(***************************************************************************)
\* images of the loop: 1, 8, 9 and MaxSumBlocks blocks of 16 pixels, alone
\* or followed by 3 pixels
MaxSumBlocks == 17
SumSizes == {16 * nb + r : nb \in {1, 8, 9, MaxSumBlocks}, r \in {0, 3}}
SumContrasts == {F32Int(-41), F32Int(255)}

LoopStart == [pc |-> "loop", i |-> 0, mean |-> 0,
              mean_vector |-> mm_setzero_si128,
              added |-> [j \in 1..8 |-> 0], kept |-> [j \in 1..8 |-> 0],
              loads |-> {}, stores |-> {}, blocks |-> {}, rest |-> {}]

\* the offsets of the bytes at an address: _mm_loadu_si128 and
\* _mm_storeu_si128 take 16 bytes, an access to an uint8_t one
Bytes128(off) == {off + k : k \in 0..15}

\* pixels of four bytes
BlockLoadsStride4(i) == Bytes128(4 * i) \cup Bytes128(4 * i + 16) \cup Bytes128(4 * i + 32)

\* the three loads of load_and_convert_to_grey16(img, i, ...)
BlockLoads(i) == Bytes128(3 * i) \cup Bytes128(3 * i + 16) \cup Bytes128(3 * i + 32)

\* _mm_storeu_si128((__m128i*) (result + i), ...)
BlockStores(i) == Bytes128(i)

\* img[i*3], img[i*3 + 1], img[i*3 + 2] for i = from, ..., to - 1
RemLoads(from, to) == {3 * i + k : i \in from..(to - 1), k \in 0..2}

\* result[i] for i = from, ..., to - 1
RemStores(from, to) == from..(to - 1)

\* one iteration of for (i = 0; i < wh - (wh % 16); i += 16)
SumBlock ==
  /\ V = 0 /\ pc = "grey"
  /\ sse.pc = "loop" /\ sse.i < BlockEnd(wh)
  /\ \E s \in {V0Block(img, coeffs, brightness, withContrast,
                       [result |-> result,
                        pre |-> IF sse.i = 0 THEN result ELSE pre,
                        mean |-> sse.mean, mean_vector |-> sse.mean_vector],
                       sse.i)} :
       /\ result' = s.result
       /\ pre' = s.pre
       /\ \E sum \in {[j \in 1..8 |-> sse.kept[j] + s.pre[sse.i + j]
                                      + s.pre[sse.i + 8 + j]]} :
            sse' = [pc |-> "loop", i |-> sse.i + 16, mean |-> s.mean,
                    mean_vector |-> s.mean_vector, added |-> sum,
                    kept |-> IF s.mean_vector = mm_setzero_si128
                             THEN [j \in 1..8 |-> 0] ELSE sum,
                    loads |-> BlockLoads(sse.i),
                    stores |-> BlockStores(sse.i),
                    blocks |-> sse.blocks \cup BlockStores(sse.i),
                    rest |-> sse.rest]
  /\ writes' = BlockWrites(writes, sse.i)
  /\ UNCHANGED <<px, ppm, main, args, V, pc, locals, bright, outs>>

\* mean += sum_mm_epi16(mean_vector) after the loop
SumFlush ==
  /\ V = 0 /\ pc = "grey"
  /\ sse.pc = "loop" /\ sse.i >= BlockEnd(wh)
  /\ \E s \in {V0Flush(withContrast, [mean |-> sse.mean,
                                      mean_vector |-> sse.mean_vector])} :
       sse' = [sse EXCEPT !.pc = "rem", !.mean = s.mean, !.added = sse.kept,
                          !.loads = {}, !.stores = {}]
  /\ UNCHANGED <<px, ppm, main, args, V, pc, locals, result, bright, pre, writes,
                 outs>>

\* the loop of the remaining pixels, and the end of the grey stage
SumRem ==
  /\ V = 0 /\ pc = "grey"
  /\ sse.pc = "rem"
  /\ \E s \in {FoldRange(LAMBDA st, i :
                           V0Rem(img, coeffs, brightness, withContrast, st, i),
                         [result |-> result,
                          pre |-> IF BlockEnd(wh) = 0 THEN result ELSE pre,
                          mean |-> sse.mean,
                          mean_vector |-> sse.mean_vector],
                         BlockEnd(wh), wh - 1)} :
       /\ result' = s.result
       /\ bright' = s.result
       /\ pre' = s.pre
       /\ mean' = F64Int(s.mean)
       /\ sse' = [sse EXCEPT !.pc = "done", !.mean = s.mean,
                             !.loads = RemLoads(BlockEnd(wh), wh),
                             !.stores = RemStores(BlockEnd(wh), wh),
                             !.rest = RemStores(BlockEnd(wh), wh)]
  /\ writes' = LoopWrites(writes, BlockEnd(wh), wh)
  /\ pc' = AfterBright
  /\ UNCHANGED <<px, ppm, main, args, V, weights, var, kstd, summand, lookup, ret,
                 outs>>

InitSum ==
  /\ \E i \in 1..Len(Palette), j \in 1..Len(Palette), n \in SumSizes :
       i <= j /\ img = Image(Palette[i], Palette[j], n) /\ wh = n
  /\ \E w \in PipeWeights : a = w[1] /\ b = w[2] /\ c = w[3]
  /\ brightness \in Brightnesses
  /\ contrast \in SumContrasts
  /\ V = 0
  /\ pc = "call"
  /\ coeffs = <<0, 0, 0>>
  /\ iters = 0
  /\ result = [i \in 1..wh |-> 0]
  /\ mean = XZero
  /\ var = XZero
  /\ kstd = XZero
  /\ summand = XZero
  /\ lookup = <<>>
  /\ ret = 1
  /\ bright = <<>>
  /\ pre = <<>>
  /\ writes = [i \in 1..wh |-> 0]
  /\ main = NoMain
  /\ ppm = NoPPM
  /\ sse = LoopStart
  /\ px = NoPx
  /\ outs = [v \in 0..2 |-> NoRun]

NextSum == Call \/ V0_Coeffs \/ SumBlock \/ SumFlush \/ SumRem

SpecSum == InitSum /\ [][NextSum]_vars


(***************************************************************************)
(* The same loops over images of few pixels, with and without contrast:    *)
(* which bytes of img and of result each step reads and writes.            *)
(***************************************************************************)
\* no block, one block and two blocks of 16 pixels, alone or with a rest
LoopSizes == {1, 15, 16, 17, 32, 35}
LoopContrasts == {NaN, F32Int(41)}

InitLoops ==
  /\ \E i \in 1..Len(Palette), j \in 1..Len(Palette), n \in LoopSizes :
       i <= j /\ img = Image(Palette[i], Palette[j], n) /\ wh = n
  /\ \E w \in PipeWeights : a = w[1] /\ b = w[2] /\ c = w[3]
  /\ brightness \in Brightnesses
  /\ contrast \in LoopContrasts
  /\ V = 0
  /\ pc = "call"
  /\ coeffs = <<0, 0, 0>>
  /\ iters = 0
  /\ result = [i \in 1..wh |-> 0]
  /\ mean = XZero
  /\ var = XZero
  /\ kstd = XZero
  /\ summand = XZero
  /\ lookup = <<>>
  /\ ret = 1
  /\ bright = <<>>
  /\ pre = <<>>
  /\ writes = [i \in 1..wh |-> 0]
  /\ main = NoMain
  /\ ppm = NoPPM
  /\ sse = LoopStart
  /\ px = NoPx
  /\ outs = [v \in 0..2 |-> NoRun]

NextLoops == Call \/ V0_Coeffs \/ SumBlock \/ SumFlush \/ SumRem

SpecLoops == InitLoops /\ [][NextLoops]_vars


(***************************************************************************)
(* load_and_convert_to_grey16 on the first 16 pixels with the weights that *)
(* convert_coeffs_to_max256 returned, one intrinsic at a time.  sse.red,   *)
(* sse.green, sse.blue are the registers of products, sse.sum their sum    *)
(* and sse.grey the shifted sum, each for pixels 0..7 and for pixels 8..15.*)
(***************************************************************************)
\* the colours at the even and at the odd positions of the 16 pixels
LaneColours == {<<255, 255, 255>>, <<255, 0, 0>>, <<0, 255, 0>>, <<0, 0, 255>>,
                <<12, 200, 44>>, <<0, 0, 0>>, <<254, 1, 255>>, <<1, 2, 3>>}
LaneWeights == SmallWeights \cup {<<128, 128, 0>>, <<255, 1, 0>>}

\* red1, green1, blue1 and red2, green2, blue2
LaneProducts ==
  /\ V = 0 /\ pc = "grey"
  /\ sse.pc = "load"
  /\ \E p \in {<<mm_loadu_si128(img, 0), mm_loadu_si128(img, 16),
                  mm_loadu_si128(img, 32)>>} :
       sse' = [pc    |-> "products",
               red   |-> <<Channel(p[1], mask_red1, p[2], mask_red2, coeffs[1]),
                           Channel(p[2], mask_red3, p[3], mask_red4, coeffs[1])>>,
               green |-> <<Channel(p[1], mask_green1, p[2], mask_green2, coeffs[2]),
                           Channel(p[2], mask_green3, p[3], mask_green4, coeffs[2])>>,
               blue  |-> <<Channel(p[1], mask_blue1, p[2], mask_blue2, coeffs[3]),
                           Channel(p[2], mask_blue3, p[3], mask_blue4, coeffs[3])>>]
  /\ UNCHANGED <<px, ppm, main, args, V, pc, locals, result, bright, pre, writes, outs>>

\* grey1 = _mm_add_epi16(_mm_add_epi16(red1, green1), blue1), and grey2
LaneSum ==
  /\ V = 0 /\ pc = "grey"
  /\ sse.pc = "products"
  /\ sse' = [pc  |-> "sum",
             sum |-> [h \in 1..2 |->
                        mm_add_epi16(mm_add_epi16(sse.red[h], sse.green[h]),
                                     sse.blue[h])],
             red |-> sse.red, green |-> sse.green, blue |-> sse.blue]
  /\ UNCHANGED <<px, ppm, main, args, V, pc, locals, result, bright, pre, writes, outs>>

\* grey1 = _mm_srli_epi16(grey1, 8), and grey2
LaneShift ==
  /\ V = 0 /\ pc = "grey"
  /\ sse.pc = "sum"
  /\ sse' = [pc   |-> "shifted",
             grey |-> [h \in 1..2 |-> mm_srli_epi16(sse.sum[h], 8)],
             sum |-> sse.sum,
             red |-> sse.red, green |-> sse.green, blue |-> sse.blue]
  /\ UNCHANGED <<px, ppm, main, args, V, pc, locals, result, bright, pre, writes, outs>>

InitLanes ==
  /\ \E p \in LaneColours, q \in LaneColours : img = Image(p, q, 16)
  /\ wh = 16
  /\ \E w \in LaneWeights : a = w[1] /\ b = w[2] /\ c = w[3]
  /\ brightness = 0
  /\ contrast = NaN
  /\ V = 0
  /\ pc = "call"
  /\ coeffs = <<0, 0, 0>>
  /\ iters = 0
  /\ result = [i \in 1..wh |-> 0]
  /\ mean = XZero
  /\ var = XZero
  /\ kstd = XZero
  /\ summand = XZero
  /\ lookup = <<>>
  /\ ret = 1
  /\ bright = <<>>
  /\ pre = <<>>
  /\ writes = [i \in 1..wh |-> 0]
  /\ main = NoMain
  /\ ppm = NoPPM
  /\ sse = [pc |-> "load"]
  /\ px = NoPx
  /\ outs = [v \in 0..2 |-> NoRun]

NextLanes == Call \/ V0_Coeffs \/ LaneProducts \/ LaneSum \/ LaneShift

SpecLanes == InitLanes /\ [][NextLanes]_vars


(***************************************************************************)
(* The contrast factor and the lookup table of V0 and V1 from given mean   *)
(* and variance.  mean and var are those of TableCount - 1 bytes 0 and one *)
(* byte level; the image and the output buffer are left out.               *)
(***************************************************************************)
MaxCount == 20000
TableCounts == {2, 17, 256, MaxCount}
TableLevels == {1, 128, 255}
TableContrasts == {F32Int(-255), F32Int(1), F32Int(41), F32Int(255)}

InitTable ==
  /\ img = <<>>
  /\ wh = 0
  /\ a = 1 /\ b = 1 /\ c = 1
  /\ brightness = 0
  /\ contrast \in TableContrasts
  /\ V \in {0, 1}
  /\ pc = "factor"
  /\ coeffs = <<0, 0, 0>>
  /\ iters = 0
  /\ result = <<>>
  /\ \E n \in TableCounts, level \in TableLevels :
       /\ mean = F64Div(F64Int(level), F64Int(n))
       /\ var = F64Div(F64Int(level * level * (n - 1)), F64Int(n * n))
  /\ kstd = XZero
  /\ summand = XZero
  /\ lookup = <<>>
  /\ ret = 1
  /\ bright = <<>>
  /\ pre = <<>>
  /\ writes = <<>>
  /\ main = NoMain
  /\ ppm = NoPPM
  /\ sse = NoSse
  /\ px = NoPx
  /\ outs = [v \in 0..2 |-> NoRun]

NextTable == V0_Factor \/ V0_Lookup \/ V1_Factor \/ V1_Lookup

SpecTable == InitTable /\ [][NextTable]_vars


(***************************************************************************)
(* The brightness stage of V1 and of V2 on one float grey value px.res:    *)
(* V1 adds the brightness to the float and clamps (px.v1); V2 stores the   *)
(* float as a byte (px.grey) and adds the brightness to the byte in its    *)
(* second loop (px.v2).  -1 stands for a value not yet computed.           *)
(***************************************************************************)
\* the grey values: the integers of PxLevels, and what float makes of an
\* integer less or plus 2^-k, within 0..255
PxLevels == {0, 1, 64, 100, 128, 200, 254, 255}
PxShifts == {1, 10, 17, 24}
PxGreys ==
  {g \in {F32Int(n) : n \in PxLevels}
         \cup {F32(XSub(XInt(n), Pow2(-k))) : n \in PxLevels, k \in PxShifts}
         \cup {F32(XAdd(XInt(n), Pow2(-k))) : n \in PxLevels, k \in PxShifts} :
     ~XLt(g, XZero) /\ ~XGt(g, F32Int(255))}
PxBrightnesses == {0, 1, -1, 55, 100, -100, 255, -255}

\* V1: the loop of case 0 or case 1 on the value
PxFused ==
  /\ px.pc = "on" /\ px.v1 = -1
  /\ px' = [px EXCEPT !.v1 = U8(V1Fused(px.res, brightness))]
  /\ UNCHANGED <<sse, ppm, main, args, V, pc, locals, result, bright, pre,
                 writes, outs>>

\* V2: result[i] = (uint8_t) res
PxGrey ==
  /\ px.pc = "on" /\ px.grey = -1
  /\ \E byte \in {U8(XTrunc(px.res))} :
       px' = [px EXCEPT !.grey = byte,
                        !.v2 = IF brightness # 0 THEN -1 ELSE byte]
  /\ UNCHANGED <<sse, ppm, main, args, V, pc, locals, result, bright, pre,
                 writes, outs>>

\* V2: if (brightness) the loop that adds the brightness to the byte
PxBright ==
  /\ px.pc = "on" /\ px.grey # -1 /\ px.v2 = -1
  /\ brightness # 0
  /\ px' = [px EXCEPT !.v2 = U8(V2BrightPixel(px.grey, brightness))]
  /\ UNCHANGED <<sse, ppm, main, args, V, pc, locals, result, bright, pre,
                 writes, outs>>

InitPx ==
  /\ \E g \in PxGreys : px = [pc |-> "on", res |-> g, v1 |-> -1, grey |-> -1,
                              v2 |-> -1]
  /\ brightness \in PxBrightnesses
  /\ img = <<>>
  /\ wh = 0
  /\ a = 1 /\ b = 1 /\ c = 1
  /\ contrast = NaN
  /\ V = 0
  /\ pc = "main"
  /\ coeffs = <<0, 0, 0>>
  /\ iters = 0
  /\ result = <<>>
  /\ mean = XZero
  /\ var = XZero
  /\ kstd = XZero
  /\ summand = XZero
  /\ lookup = <<>>
  /\ ret = 1
  /\ bright = <<>>
  /\ pre = <<>>
  /\ writes = <<>>
  /\ main = NoMain
  /\ ppm = NoPPM
  /\ sse = NoSse
  /\ outs = [v \in 0..2 |-> NoRun]

NextPx == PxFused \/ PxGrey \/ PxBright

SpecPx == InitPx /\ [][NextPx]_vars


(***************************************************************************)
(* convert_coeffs_to_max256 one loop iteration at a time, for at most      *)
(* MaxNudgeSteps iterations.                                               *)
(***************************************************************************)
MaxNudgeSteps == 4

\* the weights of SpecCoeffs, and weights of a sum above 256 with two equal
\* differences
NudgeWeights ==
  SmallWeights \cup BigWeights \cup {<<100, 150, 100>>, <<150, 100, 100>>}

\* the locals of the loop body for the current coeffs[0..2]
NudgeLocals ==
  Only({NudgeStart(XLt(sum, F32Int(256)),
                   <<IdealCoeff(a, sum), IdealCoeff(b, sum),
                     IdealCoeff(c, sum)>>, coeffs) :
        sum \in {CoeffSum(a, b, c)}})

\* coeffs[i] = 256 * (w / sum) for the three weights
NudgeEnter ==
  /\ V = 0 /\ pc = "coeffs"
  /\ \E sum \in {CoeffSum(a, b, c)} :
       coeffs' = <<InitCoeff(a, sum), InitCoeff(b, sum), InitCoeff(c, sum)>>
  /\ iters' = 0
  /\ pc' = "nudge"
  /\ UNCHANGED <<px, sse, ppm, main, args, V, result, mean, var, kstd, summand,
                 lookup, ret, bright, pre, writes, outs>>

\* one iteration that does not return
NudgeStep ==
  /\ V = 0 /\ pc = "nudge"
  /\ CoeffTotal(coeffs) # 256
  /\ iters < MaxNudgeSteps
  /\ coeffs' = Nudge(NudgeLocals).co
  /\ iters' = iters + 1
  /\ UNCHANGED <<px, sse, ppm, main, args, V, pc, result, mean, var, kstd,
                 summand, lookup, ret, bright, pre, writes, outs>>

\* if (total == 256) return
NudgeReturn ==
  /\ V = 0 /\ pc = "nudge"
  /\ CoeffTotal(coeffs) = 256
  /\ pc' = "grey"
  /\ UNCHANGED <<px, sse, ppm, main, args, V, weights, result, mean, var, kstd,
                 summand, lookup, ret, bright, pre, writes, outs>>

InitNudge ==
  /\ img = Image(Palette[1], Palette[Len(Palette)], 2)
  /\ wh = 2
  /\ \E w \in NudgeWeights : a = w[1] /\ b = w[2] /\ c = w[3]
  /\ brightness = 0
  /\ contrast = NaN
  /\ V = 0
  /\ pc = "call"
  /\ coeffs = <<0, 0, 0>>
  /\ iters = 0
  /\ result = [i \in 1..wh |-> 0]
  /\ mean = XZero
  /\ var = XZero
  /\ kstd = XZero
  /\ summand = XZero
  /\ lookup = <<>>
  /\ ret = 1
  /\ bright = <<>>
  /\ pre = <<>>
  /\ writes = [i \in 1..wh |-> 0]
  /\ main = NoMain
  /\ ppm = NoPPM
  /\ sse = NoSse
  /\ px = NoPx
  /\ outs = [v \in 0..2 |-> NoRun]

NextNudge == Call \/ NudgeEnter \/ NudgeStep \/ NudgeReturn

SpecNudge == InitNudge /\ [][NextNudge]_vars

\* convert_coeffs_to_max256 has returned
CoeffsReturned == V = 0 /\ pc = "grey"

Abs(n) == IF n < 0 THEN -n ELSE n

\* the integer weight co is within 1 of 256 * w / (a + b + c)
WithinOne(co, w) == Abs(co * (a + b + c) - 256 * w) <= a + b + c

\* C1: for every triple of non-negative weights with positive sum, also
\* when the sum is 256 or more, the returned integer weights sum to exactly
\* 256 and each is within 1 of its ideal value 256 * w / (a + b + c).
C1_SumExactAndWithinOne ==
  CoeffsReturned =>
    /\ CoeffTotal(coeffs) = 256
    /\ WithinOne(coeffs[1], a)
    /\ WithinOne(coeffs[2], b)
    /\ WithinOne(coeffs[3], c)

\* C5: for every triple of non-negative weights with positive sum the
\* nudging loop ends, and it ends after at most 256 iterations.
C5_NudgingWithin256 ==
  CoeffsReturned => CoeffTotal(coeffs) = 256 /\ iters <= 256


(***************************************************************************)
(* Properties of the three strategies on the same inputs.                  *)
(***************************************************************************)
AllDone == pc = "done"

IsConstant(buf) == \A i \in 1..Len(buf) : buf[i] = buf[1]

XAbs(x) == XMk(1, x.m, x.e)

\* |x - y| <= 1e-3 * max(|x|, |y|)
RelClose(x, y) ==
  LET d == XMul(XInt(1000), XAbs(XSub(x, y)))
  IN ~XGt(d, XAbs(x)) \/ ~XGt(d, XAbs(y))

\* C2: for the same image, weights, brightness and contrast (set or unset,
\* any image size) the outputs of the three strategies differ by at most 1
\* at every pixel.
C2_OutputsWithinOne ==
  AllDone =>
    \A u \in 0..2, v \in 0..2, i \in 1..wh :
      Abs(outs[u].result[i] - outs[v].result[i]) <= 1

\* C3: with contrast set, the means and the variances that the three
\* strategies compute agree pairwise within relative tolerance 1e-3.
C3_StatisticsAgree ==
  (AllDone /\ withContrast) =>
    \A u \in 0..2, v \in 0..2 :
      /\ RelClose(outs[u].mean, outs[v].mean)
      /\ RelClose(outs[u].var, outs[v].var)

\* C4: when the brightness-stage buffer of a strategy is constant and
\* contrast is set, the strategy finds variance 0, takes k = 0 without
\* dividing, returns success, and its output is its brightness-stage buffer.
C4_ConstantBufferUnchanged ==
  \A v \in 0..2 :
    (outs[v].done /\ withContrast /\ IsConstant(outs[v].bright)) =>
      /\ outs[v].var = XZero
      /\ outs[v].kstd = XZero
      /\ outs[v].ret = 1
      /\ outs[v].result = outs[v].bright

C4_Witness ==
  /\ AllDone /\ withContrast /\ ~XIsZero(contrast)
  /\ wh > 16 /\ brightness # 0
  /\ \A v \in 0..2 : /\ IsConstant(outs[v].bright)
                     /\ outs[v].ret = 1
                     /\ outs[v].result = outs[v].bright

GreyOf(v, cf) ==
  IF v = 0
  THEN [i \in 1..wh |->
          (cf[1] * Red(img, i - 1) + cf[2] * Green(img, i - 1)
           + cf[3] * Blue(img, i - 1)) \div 256]
  ELSE IF v = 1
  THEN [i \in 1..wh |-> XTrunc(WeightedSum(V1Norm(a, b, c), img, i - 1))]
  ELSE [i \in 1..wh |-> V2GreyPixel(a, b, c, img, i - 1)]

GreyReduction(v) == GreyOf(v, outs[0].coeffs)

\* C7: when contrast is unset no statistics and no remap are applied: the
\* output is the brightness-stage buffer, and with brightness 0 it is the
\* weighted grey reduction of the strategy.
C7_UnsetContrastSkipsStage ==
  \A v \in 0..2 :
    (outs[v].done /\ ~withContrast) =>
      /\ outs[v].ret = 1
      /\ outs[v].result = outs[v].bright
      /\ outs[v].mean = XZero /\ outs[v].var = XZero
      /\ outs[v].lookup = <<>>
      /\ brightness = 0 => outs[v].result = GreyReduction(v)

C7_Witness ==
  /\ AllDone /\ ~withContrast /\ brightness = 0 /\ wh > 16
  /\ outs[0].result # outs[1].result
  /\ \A v \in 0..2 : outs[v].result = GreyReduction(v)

Scenario8 ==
  /\ img = <<255, 0, 0, 0, 0, 0>> /\ wh = 2
  /\ a = 1 /\ b = 1 /\ c = 1
  /\ brightness = 0 /\ ~withContrast

\* C8: for the 2x1 image (255,0,0), (0,0,0) with weights (1,1,1),
\* brightness 0 and contrast unset, V1 and V2 output [85, 0]; V0 takes the
\* integer weights (85,85,86) and outputs [84, 0].
C8_TwoPixelScenario ==
  (AllDone /\ Scenario8) =>
    /\ outs[1].result = <<85, 0>>
    /\ outs[2].result = <<85, 0>>
    /\ outs[0].coeffs = <<85, 85, 86>>
    /\ outs[0].result = <<84, 0>>

C8_Witness == AllDone /\ Scenario8 /\ outs[0].result = <<84, 0>>

\* the byte that the 16-pixel loop stores for a pixel (r, g, b)
BlockByte(co, r, g, bl) ==
  V0Block(Image(<<r, g, bl>>, <<r, g, bl>>, 16), co, brightness, FALSE,
          [result |-> [k \in 1..16 |-> 0], pre |-> [k \in 1..16 |-> 0],
           mean |-> 0, mean_vector |-> mm_setzero_si128], 0).result[1]

\* floor((wa*r + wb*g + wc*b) / 256), plus brightness, clamped to [0,255]
FloorByte(co, r, g, bl) ==
  LET s == (co[1] * r + co[2] * g + co[3] * bl) \div 256 + brightness
  IN IF s > 255 THEN 255 ELSE IF s < 0 THEN 0 ELSE s

\* C9: in V0 a pixel of the trailing remainder gets the byte that the
\* 16-pixel loop computes for the same (r,g,b), that is the floor of the
\* weighted sum over 256, plus brightness, clamped; and all pixels are
\* remapped through the one lookup table.
C9_RemainderAsBlock ==
  outs[0].done =>
    /\ \A i \in (BlockEnd(wh) + 1)..wh :
         LET r  == Red(img, i - 1)
             g  == Green(img, i - 1)
             bl == Blue(img, i - 1)
         IN /\ outs[0].bright[i] = BlockByte(outs[0].coeffs, r, g, bl)
            /\ outs[0].bright[i] = FloorByte(outs[0].coeffs, r, g, bl)
    /\ (withContrast /\ outs[0].ret = 1) =>
         \A i \in 1..wh :
           outs[0].result[i] = outs[0].lookup[outs[0].bright[i] + 1]

C9_Witness ==
  /\ outs[0].done /\ wh > 16 /\ wh % 16 # 0
  /\ withContrast /\ brightness # 0 /\ outs[0].ret = 1
  /\ outs[0].result[wh] # outs[0].bright[wh]
  /\ outs[0].bright[wh] = 255

\* C10: with contrast set and variance > 0, remapping through the lookup
\* table of V1 gives exactly the bytes that V2 computes directly from each
\* brightness-stage byte, given the same mean and variance.
C10_LookupEqualsDirect ==
  (/\ AllDone /\ withContrast
   /\ ~XIsZero(outs[1].var)
   /\ outs[1].bright = outs[2].bright
   /\ outs[1].mean = outs[2].mean
   /\ outs[1].var = outs[2].var) =>
    /\ \A i \in 1..wh : outs[1].result[i] = outs[1].lookup[outs[1].bright[i] + 1]
    /\ outs[1].result = outs[2].result

\* The passes of strategy v that store the whole of result: the grey
\* reduction (in V0 and V1 together with the brightness), in V2 the
\* brightness pass when brightness is not 0, and the contrast pass.
Passes(v) ==
  1 + (IF v = 2 /\ brightness # 0 THEN 1 ELSE 0)
    + (IF withContrast THEN 1 ELSE 0)

\* C11 as stated: for every strategy and every combination of brightness and
\* contrast, a call that returns success has written every byte of the
\* output exactly once.
C11_WrittenExactlyOnce ==
  \A v \in 0..2 :
    (outs[v].done /\ outs[v].ret = 1) =>
      \A i \in 1..wh : outs[v].writes[i] = 1

\* C11 amended: a call that returns success has written every byte of the
\* output once in each pass it ran: once by the grey reduction, once more
\* by the brightness pass of V2 when brightness is not 0, once more by the
\* contrast pass when contrast is set; so never less than once, and exactly
\* once when no later pass runs.
C11_WrittenOncePerPass ==
  \A v \in 0..2 :
    (outs[v].done /\ outs[v].ret = 1) =>
      \A i \in 1..wh : outs[v].writes[i] = Passes(v)

C11_Witness ==
  /\ AllDone /\ withContrast /\ brightness # 0 /\ wh = 17
  /\ outs[0].ret = 1 /\ outs[0].writes[1] = 2 /\ outs[0].writes[17] = 2
  /\ outs[1].ret = 1 /\ outs[1].writes[17] = 2
  /\ outs[2].ret = 1 /\ outs[2].writes[17] = 3

NonFinite(x) == isnan(x) \/ isinf(x)

\* C12: a strategy returns 0 only when contrast is set and the factor kstd
\* or the offset summand = (1 - kstd) * mean is NaN or infinite; when a
\* call of the selected strategy has returned 0, main ends with a failure
\* status and without an output file, having called only the selected
\* strategy and as often as -B asks for (once without -B).
C12_FailureOnlyNonFinite ==
  /\ (pc = "ret" /\ ret = 0) =>
        (withContrast /\ (NonFinite(kstd) \/ NonFinite(summand)))
  /\ main.pc = "exit" =>
        /\ \A k \in 1..Len(main.calls) : main.calls[k].V = main.V_option
        /\ Len(main.calls) = IF main.B_option > 1 THEN main.B_option ELSE 1
        /\ (\E k \in 1..Len(main.calls) : main.calls[k].ret = 0) =>
              (main.file = <<>> /\ main.exit = "failure")

C12_Witness ==
  /\ main.pc = "exit" /\ main.B_option = 2 /\ main.exit = "failure"
  /\ ret = 0 /\ ~NonFinite(kstd) /\ NonFinite(summand)
  /\ main.file = <<>>

\* clamp(n, 0, 255) on integers
ClampInt(n) == IF n > 255 THEN 255 ELSE IF n < 0 THEN 0 ELSE n

\* C13 as stated: for a brightness other than 0 in [-255, 255] the byte that a
\* strategy leaves after its brightness stage is clamp(grey + brightness,
\* 0, 255), where grey is the grey value of that strategy for the pixel; in
\* V0 this includes the pixels of the 16-pixel blocks, so the signed 16-bit
\* addition there cannot have overflowed.
C13_BrightnessIsClampedSum ==
  (pc = "ret" /\ brightness # 0) =>
    \A i \in 1..wh :
      bright[i] = ClampInt(GreyOf(V, coeffs)[i] + brightness)

\* C13 amended: for a brightness other than 0 in [-255, 255], V0 and V2
\* leave clamp(grey + brightness, 0, 255) after the brightness stage, with
\* their own grey value, V0 also for the pixels of the 16-pixel blocks; V1
\* adds the brightness to the float weighted sum before it truncates and
\* leaves either that value or the next greater one.
C13_BrightnessWithinRounding ==
  (pc = "ret" /\ brightness # 0) =>
    \A i \in 1..wh :
      \E e \in {ClampInt(GreyOf(V, coeffs)[i] + brightness)} :
        \/ bright[i] = e
        \/ V = 1 /\ bright[i] = e + 1

C13_Witness ==
  /\ pc = "ret" /\ V = 1 /\ brightness = 31 /\ wh = 17
  /\ GreyOf(1, coeffs)[2] = 33 /\ bright[2] = 65

\* k * |x - y| <= max(|x|, |y|)
RelWithin(x, y, k) ==
  Only({~XGt(d, XAbs(x)) \/ ~XGt(d, XAbs(y)) :
        d \in {XMul(XInt(k), XAbs(XSub(x, y)))}})

\* the sum of (buf[i] - m)^2 over all i, without rounding
SquareSum(buf, m) ==
  FoldRange(LAMBDA acc, i :
              Only({XAdd(acc, XMul(d, d)) : d \in {XSub(XInt(buf[i]), m)}}),
            XZero, 1, Len(buf))

RoundNearest(x) == XTrunc(XAdd(x, [sg |-> 1, m |-> <<1>>, e |-> -1]))

\* C15: with brightness 0 and contrast unset, V1 and V2 output the
\* normalized weighted sum rounded to the nearest integer, and V0 outputs
\* floor((wa * r + wb * g + wc * b) / 256) with its integer weights.
C15_RoundedAndFloored ==
  (AllDone /\ brightness = 0 /\ ~withContrast) =>
    \A i \in 1..wh :
      /\ outs[1].result[i] =
           RoundNearest(WeightedSum(V1Norm(a, b, c), img, i - 1))
      /\ outs[2].result[i] =
           RoundNearest(F32Div(WeightedSum(<<F32Int(a), F32Int(b),
                                            F32Int(c)>>, img, i - 1),
                               CoeffSum(a, b, c)))
      /\ outs[0].result[i] =
           (outs[0].coeffs[1] * Red(img, i - 1)
            + outs[0].coeffs[2] * Green(img, i - 1)
            + outs[0].coeffs[3] * Blue(img, i - 1)) \div 256


\* every call that main has made so far returned what the first call
\* returned and left the buffer that the first call left
SameAsFirstCall ==
  \A k \in 1..Len(main.calls) :
    /\ main.calls[k].ret = main.calls[1].ret
    /\ main.calls[k].result = main.calls[1].result

\* C16: a strategy call is a function of the image, the size, the weights,
\* brightness and contrast alone: called again by main for -B on the buffer
\* that the previous call left (which is not what malloc left for the first
\* call), it returns the same value and leaves the same output; and no
\* step changes the input pixels.
C16_PureCalls ==
  [][img' = img /\ SameAsFirstCall']_vars

C16_Witness ==
  /\ main.pc = "exit" /\ main.B_option = 2 /\ Len(main.calls) = 2
  /\ withContrast /\ brightness # 0 /\ wh = 17
  /\ main.calls[2].ret = 1
  /\ ~IsConstant(main.calls[2].result)


\* what checkParams is to ensure
ValidParams ==
  /\ brightness >= -255 /\ brightness <= 255
  /\ \/ isnan(contrast)
     \/ ~XLt(contrast, XInt(-255)) /\ ~XGt(contrast, XInt(255))
  /\ \A k \in 1..3 : ~isnan(main.coeffs[k]) /\ ~XLt(main.coeffs[k], XZero)
  /\ ~XIsZero(XAdd(XAdd(main.coeffs[1], main.coeffs[2]), main.coeffs[3]))
  /\ main.V_option \in 0..2
  /\ main.B_option >= 0
  /\ main.input_filename # NULL /\ main.output_filename # NULL

\* a strategy has been entered
StrategyCalled == pc \notin {"main", "done"} \/ Len(main.calls) > 0

\* C17: checkParams returns 1 only if brightness is in [-255, 255],
\* contrast is NaN or in [-255, 255], every weight is >= 0, the sum of the
\* weights is not 0, the version is in [0, 2], B >= 0 and both file names
\* are set; main has called it, and got 1, before it reads the image and
\* before it calls a strategy, so a strategy is never entered with
\* parameters that violate these conditions.
C17_ParamsChecked ==
  /\ main.checked = 1 => ValidParams
  /\ (main.read \/ StrategyCalled) => main.checked = 1
  /\ StrategyCalled => ValidParams


\* a token that is a positive decimal integer, and its value
Unsigned(tok) == IF tok # <<>> /\ Head(tok) = "+" THEN Tail(tok) ELSE tok
TokenValue(tok) == DigitsValue(Significant(Unsigned(tok)), <<>>)
PositiveDecimal(tok) ==
  /\ Unsigned(tok) # <<>>
  /\ \A k \in 1..Len(Unsigned(tok)) : IsDigit(Unsigned(tok)[k])
  /\ TokenValue(tok) # <<>>
ValidMaxval(tok) ==
  PositiveDecimal(tok) /\ BCmp(TokenValue(tok), BFromInt(255)) <= 0
\* readPPM has ended, and not because malloc failed
PPMEnded ==
  /\ ppm.pc \in {"done", "exit", "crash"}
  /\ ppm.err # "Unable to allocate memory for image"
\* the file is a header of the four tokens, one whitespace byte and the
\* samples of the image
WellFormed ==
  /\ ppm.toks[1] = <<"P", "6">>
  /\ PositiveDecimal(ppm.toks[2]) /\ PositiveDecimal(ppm.toks[3])
  /\ ValidMaxval(ppm.toks[4])
  /\ \A k \in 1..3 : ppm.seps[k] # <<>>
  /\ ppm.rest # <<>> /\ IsWS(ppm.rest[1])
  /\ BCmp(BMul(BMul(<<3>>, TokenValue(ppm.toks[3])), TokenValue(ppm.toks[2])),
          BFromInt(Len(ppm.rest) - 1)) <= 0

\* C18: of a file whose tokens P6, width, height and maxval are separated by
\* non-empty runs of whitespace and comments, readPPM returns the image with
\* the width, height and maxval of the tokens, and its samples are the bytes
\* after the one whitespace byte that follows the maxval token.
C18_HeaderTolerant ==
  (PPMEnded /\ WellFormed) =>
    /\ ppm.pc = "done"
    /\ ppm.width = TokenValue(ppm.toks[2])
    /\ ppm.height = TokenValue(ppm.toks[3])
    /\ ppm.maxval.mag = TokenValue(ppm.toks[4])
    /\ ppm.data = SubSeq(ppm.rest, 2, 1 + Len(ppm.data))

\* C19: readPPM ends the program with an error message when the first token
\* is not P6, when the width or the height token is not a positive decimal
\* integer, or when the maxval token is not an integer from 1 to 255.
C19_MalformedRejected ==
  (/\ PPMEnded
   /\ \/ ppm.toks[1] # <<"P", "6">>
      \/ ~PositiveDecimal(ppm.toks[2])
      \/ ~PositiveDecimal(ppm.toks[3])
      \/ ~ValidMaxval(ppm.toks[4]))
  => ppm.pc = "exit"


\* C20: between two additions of sum_mm_epi16(mean_vector) to mean, the sums
\* in the lanes of mean_vector and all sums of lanes that sum_mm_epi16 forms
\* stay within 0..32767, the register holds the sums unwrapped, and mean
\* with the sums of the lanes is the sum of the grey values stored so far.
C20_PartialSumsExact ==
  sse.pc \in {"loop", "rem", "done"} =>
    /\ \A j \in 1..8 : sse.added[j] \in 0..32767
    /\ SumSeq(sse.added) <= 32767
    /\ sse.pc = "loop" => Lanes16(sse.mean_vector) = sse.kept
    /\ sse.mean + (IF sse.pc = "loop" THEN SumSeq(sse.kept) ELSE 0)
       = SumSeq(SubSeq(result, 1, IF sse.pc = "done" THEN wh ELSE sse.i))

\* eight white blocks were summed in mean_vector and added to mean at i = 128
C20_Witness ==
  /\ sse.pc = "loop" /\ sse.i = 144
  /\ SumSeq(sse.added) = 8 * 16 * 255
  /\ sse.mean_vector = mm_setzero_si128
  /\ sse.mean = 9 * 16 * 255


\* C21: the lookup table that V0 builds through its int16_t res is, entry
\* for entry, the table that V1 builds from the same kstd and summand, which
\* come from the same mean, variance and contrast.
C21_SameTable ==
  (V = 0 /\ pc = "remap") =>
    lookup = [j \in 1..256 |-> U8(V1Lookup(kstd, summand)[j])]


\* C22: for a grey value in 0..255 and a brightness in -255..255, the byte
\* of V1's fused loop is the byte of V2's two loops.
C22_FusedIsTwoPass ==
  (px.pc = "on" /\ px.v1 # -1 /\ px.v2 # -1) => px.v1 = px.v2

\* C22 as amended: the byte of V1's fused loop is the byte of V2's two
\* loops or that byte plus one; with brightness 0 both are the truncated
\* grey value.
C22_FusedWithinOne ==
  (px.pc = "on" /\ px.v1 # -1 /\ px.v2 # -1) =>
    /\ px.v1 \in {px.v2, px.v2 + 1}
    /\ brightness = 0 => px.v1 = XTrunc(px.res) /\ px.v2 = XTrunc(px.res)

\* the float sum of a grey value below 100 and the brightness 100 is 200
C22_Witness ==
  /\ px.pc = "on" /\ brightness = 100
  /\ XLt(px.res, F32Int(100)) /\ px.grey = 99
  /\ px.v1 = 200 /\ px.v2 = 199


\* what a step of a strategy with contrast keeps to: the variance pass
\* starts from a buffer of brightness-clamped bytes, all written, and takes
\* the variance of these bytes around their final mean; the buffer is not
\* written, and mean and variance stay, while the factor, the offset and the
\* table are computed; the remap starts from the brightness-clamped bytes and
\* leaves mean, variance, factor and offset as they are
StageOrder ==
  /\ pc = "stats" =>
       /\ result = bright /\ \A k \in 1..wh : writes[k] >= 1
       /\ mean' = MeanOf(F64Int(SumSeq(bright)), wh)
       /\ var' = IF V = 0 THEN V0Var(bright, wh, mean')
                 ELSE F64Div(VarLoop(XZero, bright, mean', 1, wh), F64Int(wh))
       /\ result' = result
  /\ pc \in {"factor", "lookup"} =>
       /\ result = bright /\ result' = result
       /\ mean' = mean /\ var' = var
  /\ pc = "lookup" => kstd' = kstd /\ summand' = summand
  /\ pc = "remap" =>
       /\ result = bright
       /\ mean' = mean /\ var' = var /\ kstd' = kstd /\ summand' = summand

\* C23: with contrast set, every strategy has given all bytes their
\* brightness-clamped grey value and has the final mean before the variance
\* pass, which reads these bytes; no byte is remapped before mean, variance,
\* factor and offset are final.
C23_StagesInOrder == [][StageOrder]_vars

\* V2 has remapped the bytes that its brightness pass had clamped
C23_Witness ==
  /\ V = 2 /\ pc = "ret" /\ ret = 1 /\ withContrast /\ brightness # 0
  /\ result # bright
  /\ \A k \in 1..wh : writes[k] = 3


\* the weights (1, 2, 3 for red, green, blue) whose difference is the
\* largest (increment) or the smallest (decrement) before an iteration
Extremes ==
  {j \in 1..3 : \A k \in 1..3 :
     IF NudgeLocals.up THEN ~XGt(NudgeLocals.df[k], NudgeLocals.df[j])
     ELSE ~XLt(NudgeLocals.df[k], NudgeLocals.df[j])}

\* the iteration changes one weight by one; when tied says whether only
\* iterations with a tie are meant; the changed weight is the one of the
\* extreme weights that comes first by rank
TieBreak(tied, rank) ==
  (pc = "nudge" /\ coeffs' # coeffs /\ (tied => Cardinality(Extremes) > 1)) =>
    \E i \in Extremes :
      /\ \A j \in Extremes : rank[i] <= rank[j]
      /\ coeffs' = [coeffs EXCEPT ![i] = IF NudgeLocals.up THEN (@ + 1) % U16
                                          ELSE (@ + U16 - 1) % U16]

\* C24: when weights tie for the largest difference (increment) or for the
\* smallest (decrement), the adjustment goes to red in preference to blue
\* and to blue in preference to green.
C24_TieRedBlueGreen == [][TieBreak(TRUE, <<1, 3, 2>>)]_vars

\* C24 as amended: every adjustment goes to a weight with the largest
\* difference (increment) or the smallest (decrement), on a tie to blue in
\* preference to green and to green in preference to red.
C24_TieBlueGreenRed == [][TieBreak(FALSE, <<3, 2, 1>>)]_vars

\* red and green tied for the largest difference and green was incremented
C24_Witness ==
  /\ pc = "nudge" /\ a = 2 /\ b = 2 /\ c = 1
  /\ iters = 1 /\ coeffs = <<102, 103, 51>>



\* C25: every step of the loops of V0 reads bytes of img at offsets in
\* 0..3*wh-1 only and writes bytes of result at offsets in 0..wh-1 only; the
\* 16-pixel loop has written the first sse.i pixels, which are the first
\* wh - wh % 16 when it ends, and the loop of the remaining pixels writes
\* the others.
C25_AccessInBounds ==
  sse.pc \in {"loop", "rem", "done"} =>
    /\ sse.loads \subseteq 0..(3 * wh - 1)
    /\ sse.stores \subseteq 0..(wh - 1)
    /\ sse.pc = "loop" => sse.blocks = 0..(sse.i - 1)
    /\ sse.pc # "loop" => sse.blocks = 0..(wh - (wh % 16) - 1)
    /\ sse.pc = "done" => sse.rest = (wh - (wh % 16))..(wh - 1)

\* 35 pixels: two blocks wrote pixels 0..31 and read up to byte 95, the
\* loop of the remaining pixels read the last 9 bytes and wrote pixels 32..34
C25_Witness ==
  /\ sse.pc = "done" /\ wh = 35
  /\ sse.blocks = 0..31
  /\ sse.rest = {32, 33, 34}
  /\ sse.loads = 96..104



\* C26: the header loop of readPPM stores to buffer[0..buflen-1] only, for
\* token bytes and for the '\0' that ends a token, and a file with a token
\* of buflen or more characters ends in exit(EXIT_FAILURE).
C26_StoresInBuffer ==
  ppm.pc # "off" =>
    /\ ppm.top < buflen
    /\ ppm.pc # "crash"
    /\ (\E k \in 1..4 : Len(ppm.toks[k]) >= buflen) => ppm.pc # "done"



\* the lane of pixel 8 * (h - 1) + j of 16-bit register pair regs
Lane(regs, h, j) == Lanes16(regs[h])[j + 1]

\* C27: with the weights that convert_coeffs_to_max256 returned, for each
\* of the 16 pixels the lanes of the product registers hold wa*r, wb*g and
\* wc*b and the lane of their sum holds wa*r + wb*g + wc*b, all at most
\* 65535 and none reduced modulo 2^16, and the shifted lane holds
\* floor((wa*r + wb*g + wc*b) / 256), which lies in 0..255.
C27_LanesDoNotWrap ==
  (V = 0 /\ pc = "grey" /\ sse.pc \in {"products", "sum", "shifted"}) =>
    \A h \in 1..2, j \in 0..7 :
      LET i    == 8 * (h - 1) + j
          wr   == coeffs[1] * Red(img, i)
          wg   == coeffs[2] * Green(img, i)
          wb   == coeffs[3] * Blue(img, i)
      IN /\ wr <= 65535 /\ wg <= 65535 /\ wb <= 65535
         /\ wr + wg + wb <= 65535
         /\ Lane(sse.red, h, j) = wr
         /\ Lane(sse.green, h, j) = wg
         /\ Lane(sse.blue, h, j) = wb
         /\ sse.pc # "products" => Lane(sse.sum, h, j) = wr + wg + wb
         /\ sse.pc = "shifted" =>
              /\ Lane(sse.grey, h, j) = (wr + wg + wb) \div 256
              /\ Lane(sse.grey, h, j) \in 0..255

\* the weight 256 times the sample 255, the largest product, is in a lane
\* and is shifted to 255
C27_Witness ==
  /\ V = 0 /\ pc = "grey" /\ sse.pc = "shifted"
  /\ coeffs = <<0, 0, 256>>
  /\ Blue(img, 0) = 255
  /\ Lane(sse.blue, 1, 0) = 65280
  /\ Lane(sse.grey, 1, 0) = 255

=============================================================================
